---- MODULE Spec2Model ----
(***************************************************************************)
(* Blightmud: the scripting host (src/lua/lua_script.rs), the prompt and   *)
(* prompt-mask script libraries (src/lua/prompt.rs, src/lua/prompt_mask.rs)*)
(* and the prompt-mask model (src/model/prompt_mask.rs).                   *)
(*                                                                         *)
(* lua      the interpreter state owned by LuaScript (registry, globals,   *)
(*          listener tables, the trigger and alias modules' tables)        *)
(* conn     the main loop's connection: the id handed to the most recent   *)
(*          on_connect, and whether the interpreter was rebuilt since;     *)
(*          stale: the timer ids handed to scripts of discarded            *)
(*          interpreters                                                   *)
(* sent     the events written to the event bus by the last operation      *)
(* last     what the last operation was, what it invoked and returned:     *)
(*          op, arg, ret, invoked (the listeners called, in order), fired  *)
(*          (ids of the triggers or aliases that fired, or that the script *)
(*          removed), err (a script error was raised), seen (the registry  *)
(*          as the first connection listener found it)                     *)
(***************************************************************************)
EXTENDS Integers, Sequences, FiniteSets, TLC

VARIABLES lua, conn, sent, last

vars == <<lua, conn, sent, last>>

\* ------------------------------------------------------------------------
\* Bounds of the model
\* ------------------------------------------------------------------------

\* user listeners a script registers over all listener tables
MaxListeners == 2
\* triggers (and aliases) a script adds within one interpreter
MaxTriggers == 2
\* largest count option of a counted trigger
MaxCount == 2
\* longest prompt buffer handed to mask_buffer
MaxBuf == 2
\* completion callbacks a script registers within one interpreter
MaxCompleters == 2
\* timer.add calls of scripts within one interpreter
MaxTimers == 2
\* timer.on_tick calls of scripts within one interpreter
MaxTickers == 2
\* templates a script appends to package.path within one interpreter
MaxPath == 2
\* calls of a summing tick callback within one interpreter
MaxSummed == 3
\* connections the session opens
MaxConnects == 3
\* largest small position a script hands to prompt.set_cursor
MaxCursor == 3
\* longest input handed to the printable-chars iterators
MaxInput == 4
\* most addresses a host name resolves to
MaxAddrs == 3
\* most release tags in the repository
MaxTags == 2

\* Lua nil / Rust None where the other values are strings
Nil == "nil"

\* Option<T>: None, or Some(v) with Unwrap(Some(v)) = v
None == <<>>

Some(v) == <<v>>

Unwrap(o) == o[1]

\* ------------------------------------------------------------------------
\* Small helpers
\* ------------------------------------------------------------------------

Range(s) == {s[i] : i \in DOMAIN s}

\* the elements of a finite set of integers, ascending
RECURSIVE SortedSeq(_)
SortedSeq(S) ==
    IF S = {} THEN <<>>
    ELSE LET m == CHOOSE x \in S : \A y \in S : x <= y
         IN <<m>> \o SortedSeq(S \ {m})

\* ------------------------------------------------------------------------
\* Line (crate::model::Line as the host uses it) and its script view
\* ------------------------------------------------------------------------

\* Line::from(text): a fresh line, no flag set
LineFrom(text) ==
    [content |-> text, gag |-> FALSE, matched |-> FALSE,
     bypass_script |-> FALSE, prompt |-> FALSE]

\* LuaLine::from(line): the script view, without replacement
LuaLineFrom(line) == [inner |-> line, replacement |-> Nil]

\* ------------------------------------------------------------------------
\* Script callbacks.  A Lua function value is a record
\*   act    what the function does when called
\*   core   TRUE for a listener installed by a built-in module (core mode)
\*   epoch  the interpreter (0/1, flipped by every rebuild) it was created in
\* ------------------------------------------------------------------------

Callback(act, core, epoch) == [act |-> act, core |-> core, epoch |-> epoch]

\* the listener tables of the registry that the model walks
ListenerTables == {"MUD_OUTPUT_LISTENER_TABLE", "MUD_INPUT_LISTENER_TABLE",
                   "ON_CONNECTION_CALLBACK_TABLE", "ON_DISCONNECT_CALLBACK_TABLE"}

LineTables == {"MUD_OUTPUT_LISTENER_TABLE", "MUD_INPUT_LISTENER_TABLE"}

\* what a user listener of a table may do
UserActs(tbl) ==
    IF tbl \in LineTables THEN {"pass", "raise", "gag"} ELSE {"pass", "raise"}

\* ------------------------------------------------------------------------
\* Regular expressions of triggers and aliases: the patterns of the
\* repository's tests, each with the set of line texts it matches
\* ------------------------------------------------------------------------

Patterns == {"^test$", "test"}

Texts == {"test", "test test", "other"}

Language(re) ==
    CASE re = "^test$" -> {"test"}
      [] re = "test"   -> {"test", "test test"}
      [] OTHER         -> {}

Match(re, text) == text \in Language(re)

\* ------------------------------------------------------------------------
\* Trigger / alias engine (built-in modules trigger.lua and alias.lua)
\*   trigger: [id, regex, enabled, gag, prompt, count, cb]
\*   alias:   [id, regex, enabled, cb]
\* count is None for an uncounted trigger; cb is "ok" or "raise"
\* ------------------------------------------------------------------------

TriggerApplies(t, line) ==
    /\ t.enabled
    /\ t.prompt = line.prompt
    /\ Match(t.regex, line.content)

\* what is left of trigger t in the table once it has matched
TriggerAfterMatch(t) ==
    IF t.count = None THEN <<t>>
    ELSE IF Unwrap(t.count) - 1 <= 0 THEN <<>>
    ELSE <<[t EXCEPT !.count = Some(Unwrap(t.count) - 1)]>>

\* one pass of the trigger module's output listener over the line
RECURSIVE TriggerLoop(_, _, _, _)
TriggerLoop(todo, done, lline, fired) ==
    IF todo = <<>>
    THEN [triggers |-> done, lline |-> lline, fired |-> fired, err |-> FALSE]
    ELSE LET t == Head(todo) IN
         IF TriggerApplies(t, lline.inner)
         THEN LET l1 == [lline EXCEPT !.inner.matched = TRUE,
                                      !.inner.gag = lline.inner.gag \/ t.gag]
                  kept == TriggerAfterMatch(t)
              IN IF t.cb = "raise"
                 THEN [triggers |-> done \o kept \o Tail(todo), lline |-> l1,
                       fired |-> fired \cup {t.id}, err |-> TRUE]
                 ELSE TriggerLoop(Tail(todo), done \o kept, l1, fired \cup {t.id})
         ELSE TriggerLoop(Tail(todo), done \o <<t>>, lline, fired)

TriggerEngine(triggers, lline) == TriggerLoop(triggers, <<>>, lline, {})

AliasApplies(a, line) == a.enabled /\ Match(a.regex, line.content)

\* one pass of the alias module's input listener over the line
RECURSIVE AliasLoop(_, _, _)
AliasLoop(todo, lline, fired) ==
    IF todo = <<>>
    THEN [lline |-> lline, fired |-> fired, err |-> FALSE]
    ELSE LET a == Head(todo) IN
         IF AliasApplies(a, lline.inner)
         THEN LET l1 == [lline EXCEPT !.inner.matched = TRUE]
              IN IF a.cb = "raise"
                 THEN [lline |-> l1, fired |-> fired \cup {a.id}, err |-> TRUE]
                 ELSE AliasLoop(Tail(todo), l1, fired \cup {a.id})
         ELSE AliasLoop(Tail(todo), lline, fired)

AliasEngine(aliases, lline) == AliasLoop(aliases, lline, {})

\* trigger.add(pattern, opts, f): the next id, appended to the table
TriggerAdd(st, re, opts, cb) ==
    [st EXCEPT
       !.triggers = Append(@, [id |-> st.next_trigger_id, regex |-> re,
                               enabled |-> opts.enabled, gag |-> opts.gag,
                               prompt |-> opts.prompt, count |-> opts.count,
                               cb |-> cb]),
       !.next_trigger_id = @ + 1]

\* trigger.remove(id): the entry of that id becomes absent
TriggerRemove(st, id) ==
    [st EXCEPT !.triggers = SelectSeq(@, LAMBDA t : t.id # id)]

\* alias.add(pattern, f)
AliasAdd(st, re, cb) ==
    [st EXCEPT
       !.aliases = Append(@, [id |-> st.next_alias_id, regex |-> re,
                              enabled |-> TRUE, cb |-> cb]),
       !.next_alias_id = @ + 1]

\* alias.remove(id)
AliasRemove(st, id) ==
    [st EXCEPT !.aliases = SelectSeq(@, LAMBDA a : a.id # id)]

\* ------------------------------------------------------------------------
\* The interpreter state
\* ------------------------------------------------------------------------

\* Store::new(): the empty persistent store
StoreNew == {}

\* the listeners the built-in modules install while core mode is set
BuiltinTables(epoch) ==
    [tbl \in ListenerTables |->
       CASE tbl = "MUD_OUTPUT_LISTENER_TABLE" ->
              <<Callback("trigger_engine", TRUE, epoch)>>
         [] tbl = "MUD_INPUT_LISTENER_TABLE" ->
              <<Callback("alias_engine", TRUE, epoch)>>
         [] OTHER -> <<>>]

\* the timed callback and the tick callback a built-in module registers while
\* core mode is set: timer.add takes the first id of the shared counter
BuiltinTimers(st) ==
    [st EXCEPT !.timed_core = (st.next_timed_id :> Callback("pass", TRUE, st.epoch)),
               !.next_timed_id = @ + 1,
               !.tick_core = <<Callback("pass", TRUE, st.epoch)>>]

\* package.path of a fresh interpreter: the list of its templates, each a
\* path as the sequence of its segments
DefaultPackagePath == << <<".", "?.lua">> >>

\* the built-in scripts of create_default_lua_state that the model lets raise:
\* one of the modules run in core mode, and on_state_created.lua
FailingModules == {"plugins.lua", "on_state_created.lua"}

\* create_default_lua_state(builder, store); epoch names the new interpreter,
\* core_timers tells whether the built-in modules of the build register
\* timers, failing is None or Some(the built-in script that raises)
create_default_lua_state(store, epoch, core_timers, failing) ==
    LET \* the registry slots and the globals (line 128: the store global)
        s0 == [tables |-> [tbl \in ListenerTables |-> <<>>],
               core_mode |-> TRUE,
               registry |-> [IS_CONNECTED |-> None, CONNECTION_ID |-> None,
                             PROMPT_CONTENT |-> "", PROMPT_CURSOR_POS |-> None],
               store |-> IF store = None THEN StoreNew ELSE Unwrap(store),
               triggers |-> <<>>, next_trigger_id |-> 1,
               aliases |-> <<>>, next_alias_id |-> 1,
               epoch |-> epoch,
               created_saw |-> None,
               core_timers |-> core_timers,
               failing |-> failing,
               \* TIMED_CALLBACK_TABLE_CORE, TIMED_CALLBACK_TABLE, TIMED_NEXT_ID
               timed_core |-> <<>>, timed_user |-> <<>>, next_timed_id |-> 1,
               \* TIMER_TICK_CALLBACK_TABLE_CORE, TIMER_TICK_CALLBACK_TABLE
               tick_core |-> <<>>, tick_user |-> <<>>,
               \* COMPLETION_CALLBACK_TABLE
               completion |-> <<>>,
               \* the global total_millis of confirm_tick_callback
               total_millis |-> 0,
               package_path |-> DefaultPackagePath,
               \* COMMAND_BINDING_TABLE
               bindings |-> <<>>,
               \* the spellcheck global: Spellchecker::new()
               hunspell |-> None]
        \* the built-in modules run in core mode
        s1a == [s0 EXCEPT !.tables = BuiltinTables(epoch)]
        s1 == IF core_timers THEN BuiltinTimers(s1a) ELSE s1a
        \* blight.core_mode(false)
        s2 == [s1 EXCEPT !.core_mode = FALSE]
        \* on_state_created.lua runs last and sees the globals as they are
        s3 == [s2 EXCEPT !.created_saw = Some(s2.store)]
    IN \* state.load(..).exec()?: the closure ends at the script that raises
       IF failing = Some("plugins.lua") THEN s1 ELSE s3

\* ------------------------------------------------------------------------
\* Prompt mask (crate::model::PromptMask): BTreeMap<i32, String>, here a
\* function from its keys to strings; a string is a sequence of characters
\* ------------------------------------------------------------------------

\* a character outside ASCII: U+00E9 takes two bytes in UTF-8
MultiByteChar == "U+00E9"

\* characters above U+007F whose code point modulo 256 is an ASCII byte:
\* U+011B ends in 0x1b (ESC), U+0161 in 0x61 ("a")
WideEsc == "U+011B"

WideA == "U+0161"

\* char::len_utf8 for the characters of the model
LenUtf8(c) == IF c \in {MultiByteChar, WideEsc, WideA} THEN 2 ELSE 1

\* String::len(): the length in bytes
RECURSIVE StrLen(_)
StrLen(str) == IF str = <<>> THEN 0 ELSE LenUtf8(Head(str)) + StrLen(Tail(str))

\* Vec::splice(at..at, chars): None when at is beyond the end (a panic)
Splice(buf, at, chars) ==
    IF at > Len(buf) THEN None
    ELSE Some(SubSeq(buf, 1, at) \o chars \o SubSeq(buf, at + 1, Len(buf)))

\* the loop of mask_buffer over the keys in ascending order
RECURSIVE MaskLoop(_, _, _, _)
MaskLoop(mask, keys, masked_buf, offset) ==
    IF keys = <<>> THEN [panic |-> FALSE, out |-> masked_buf]
    ELSE LET idx == Head(keys)
             \* (idx - 1) as usize is beyond every buffer when idx - 1 < 0
             spliced == IF idx - 1 < 0 THEN None
                        ELSE Splice(masked_buf, offset + (idx - 1), mask[idx])
         IN IF spliced = None THEN [panic |-> TRUE, out |-> <<>>]
            ELSE MaskLoop(mask, Tail(keys), Unwrap(spliced),
                          offset + StrLen(mask[idx]))

\* PromptMask::mask_buffer(&self, buf)
mask_buffer(mask, buf) == MaskLoop(mask, SortedSeq(DOMAIN mask), buf, 0)

\* i64 as i32 for the small keys of the model
AsI32(k) == k

\* impl From<LuaTable> for PromptMask: mask.insert(offset as i32, marker)
PromptMaskFrom(mask_table) ==
    [k \in {AsI32(j) : j \in DOMAIN mask_table} |->
       mask_table[CHOOSE j \in DOMAIN mask_table : AsI32(j) = k]]

\* ------------------------------------------------------------------------
\* Error reporting
\* ------------------------------------------------------------------------

\* output_stack_trace(writer, msg): the trace goes to the bus as one Info
output_stack_trace(trace) == <<[type |-> "Info", text |-> trace]>>

\* create_default_lua_state: if let Err(err) = result { output_stack_trace(..) }
BuildEvents(st) ==
    IF st.failing = None THEN <<>> ELSE output_stack_trace(1)

\* exec_lua that drops the error without reporting it
exec_lua_silent(r) == <<>>

\* exec_lua(func): r is what func returned; an Err is reported, never passed on
exec_lua(r) == IF r.err THEN output_stack_trace(r.trace) ELSE <<>>

\* ------------------------------------------------------------------------
\* Listener chains
\* ------------------------------------------------------------------------

\* the texts the replacing listeners of the model hand to line:replace
Replaced == "replaced"

ReplacedGagged == "gagged"

\* cb.call::<_, LuaLine>(lline.clone()) for a listener of a line table
CallLineListener(st, cb, lline) ==
    CASE cb.act = "pass" ->
           [st |-> st, lline |-> lline, fired |-> {}, err |-> FALSE]
      [] cb.act = "gag" ->
           [st |-> st, lline |-> [lline EXCEPT !.inner.gag = TRUE],
            fired |-> {}, err |-> FALSE]
      [] cb.act = "raise" ->
           [st |-> st, lline |-> lline, fired |-> {}, err |-> TRUE]
      [] cb.act = "replace" ->
           \* line:replace(text); return line
           [st |-> st, lline |-> [lline EXCEPT !.replacement = Replaced],
            fired |-> {}, err |-> FALSE]
      [] cb.act = "replace_gagged" ->
           \* if line:gag() then line:replace(text) end; return line
           [st |-> st,
            lline |-> IF lline.inner.gag
                      THEN [lline EXCEPT !.replacement = ReplacedGagged]
                      ELSE lline,
            fired |-> {}, err |-> FALSE]
      [] cb.act = "trigger_engine" ->
           LET r == TriggerEngine(st.triggers, lline)
           IN [st |-> [st EXCEPT !.triggers = r.triggers], lline |-> r.lline,
               fired |-> r.fired, err |-> r.err]
      [] cb.act = "alias_engine" ->
           LET r == AliasEngine(st.aliases, lline)
           IN [st |-> st, lline |-> r.lline, fired |-> r.fired, err |-> r.err]

\* a walk that calls every listener with the line the first one was given
RECURSIVE WalkLineListenersSameLine(_, _, _, _, _)
WalkLineListenersSameLine(st, todo, lline, invoked, fired) ==
    IF todo = <<>>
    THEN [st |-> st, lline |-> lline, invoked |-> invoked, fired |-> fired,
          err |-> FALSE, trace |-> 0]
    ELSE LET cb == Head(todo)
             r == CallLineListener(st, cb, lline)
             inv == Append(invoked, cb)
         IN IF r.err
            THEN [st |-> r.st, lline |-> lline, invoked |-> inv,
                  fired |-> fired \cup r.fired, err |-> TRUE, trace |-> Len(inv)]
            ELSE IF Tail(todo) = <<>>
            THEN [st |-> r.st, lline |-> r.lline, invoked |-> inv,
                  fired |-> fired \cup r.fired, err |-> FALSE, trace |-> 0]
            ELSE WalkLineListenersSameLine(r.st, Tail(todo), lline, inv,
                                           fired \cup r.fired)

\* for pair in table.pairs() { lline = cb.call(lline.clone())? }
RECURSIVE WalkLineListeners(_, _, _, _, _)
WalkLineListeners(st, todo, lline, invoked, fired) ==
    IF todo = <<>>
    THEN [st |-> st, lline |-> lline, invoked |-> invoked, fired |-> fired,
          err |-> FALSE, trace |-> 0]
    ELSE LET cb == Head(todo)
             r == CallLineListener(st, cb, lline)
             inv == Append(invoked, cb)
         IN IF r.err
            THEN [st |-> r.st, lline |-> lline, invoked |-> inv,
                  fired |-> fired \cup r.fired, err |-> TRUE, trace |-> Len(inv)]
            ELSE WalkLineListeners(r.st, Tail(todo), r.lline, inv,
                                   fired \cup r.fired)

\* the position of the first listener of the chain that raises, 0 if none
FirstRaise(chain) ==
    IF \E i \in DOMAIN chain : chain[i].act = "raise"
    THEN CHOOSE i \in DOMAIN chain :
           /\ chain[i].act = "raise"
           /\ \A j \in 1..(i - 1) : chain[j].act # "raise"
    ELSE 0

\* a walk that reports the first error and goes on to the later listeners
WalkListenersPastErrors(chain) ==
    LET k == FirstRaise(chain)
    IN [invoked |-> chain, err |-> k # 0, trace |-> k]

\* for pair in table.pairs() { cb.call(args)? } for a listener without result
WalkListeners(chain) ==
    LET k == FirstRaise(chain)
    IN IF k = 0
       THEN [invoked |-> chain, err |-> FALSE, trace |-> 0]
       ELSE [invoked |-> SubSeq(chain, 1, k), err |-> TRUE, trace |-> k]

\* line.replace_with(&lline.inner), then set_content(replacement) if any
WriteBack(lline) ==
    IF lline.replacement # Nil
    THEN [lline.inner EXCEPT !.content = lline.replacement]
    ELSE lline.inner

\* ------------------------------------------------------------------------
\* Host operations (impl LuaScript), as functions of the interpreter state
\* ------------------------------------------------------------------------

Skipped(st, line) ==
    [st |-> st, line |-> line, invoked |-> <<>>, fired |-> {}, err |-> FALSE,
     events |-> <<>>]

\* on_mud_output with the input path's res.is_none() branch
on_mud_output_marked(st, line) ==
    IF line.bypass_script THEN Skipped(st, line)
    ELSE LET w == WalkLineListeners(st, st.tables["MUD_OUTPUT_LISTENER_TABLE"],
                                    LuaLineFrom(line), <<>>, {})
         IN [st |-> w.st,
             line |-> IF w.err THEN [line EXCEPT !.matched = TRUE]
                      ELSE WriteBack(w.lline),
             invoked |-> w.invoked, fired |-> w.fired, err |-> w.err,
             events |-> exec_lua(w)]

\* on_mud_output without the bypass_script test
on_mud_output_unguarded(st, line) ==
    LET w == WalkLineListeners(st, st.tables["MUD_OUTPUT_LISTENER_TABLE"],
                               LuaLineFrom(line), <<>>, {})
    IN [st |-> w.st,
        line |-> IF w.err THEN line ELSE WriteBack(w.lline),
        invoked |-> w.invoked, fired |-> w.fired, err |-> w.err,
        events |-> exec_lua(w)]

\* on_mud_output handing the listeners a fresh line of the same text
on_mud_output_fresh_line(st, line) ==
    IF line.bypass_script THEN Skipped(st, line)
    ELSE LET w == WalkLineListeners(st, st.tables["MUD_OUTPUT_LISTENER_TABLE"],
                                    LuaLineFrom(LineFrom(line.content)), <<>>, {})
         IN [st |-> w.st,
             line |-> IF w.err THEN line ELSE WriteBack(w.lline),
             invoked |-> w.invoked, fired |-> w.fired, err |-> w.err,
             events |-> exec_lua(w)]

\* on_mud_output writing back what the listeners before the error returned
on_mud_output_partial(st, line) ==
    IF line.bypass_script THEN Skipped(st, line)
    ELSE LET w == WalkLineListeners(st, st.tables["MUD_OUTPUT_LISTENER_TABLE"],
                                    LuaLineFrom(line), <<>>, {})
         IN [st |-> w.st, line |-> WriteBack(w.lline),
             invoked |-> w.invoked, fired |-> w.fired, err |-> w.err,
             events |-> exec_lua(w)]

on_mud_output(st, line) ==
    IF line.bypass_script THEN Skipped(st, line)
    ELSE LET w == WalkLineListeners(st, st.tables["MUD_OUTPUT_LISTENER_TABLE"],
                                    LuaLineFrom(line), <<>>, {})
         IN [st |-> w.st,
             line |-> IF w.err THEN line ELSE WriteBack(w.lline),
             invoked |-> w.invoked, fired |-> w.fired, err |-> w.err,
             events |-> exec_lua(w)]

\* on_mud_input without the res.is_none() branch
on_mud_input_unmarked(st, line) ==
    IF line.bypass_script THEN Skipped(st, line)
    ELSE LET w == WalkLineListeners(st, st.tables["MUD_INPUT_LISTENER_TABLE"],
                                    LuaLineFrom(line), <<>>, {})
         IN [st |-> w.st,
             line |-> IF w.err THEN line ELSE WriteBack(w.lline),
             invoked |-> w.invoked, fired |-> w.fired, err |-> w.err,
             events |-> exec_lua(w)]

\* on_mud_input without line.replace_with
on_mud_input_not_written_back(st, line) ==
    IF line.bypass_script THEN Skipped(st, line)
    ELSE LET w == WalkLineListeners(st, st.tables["MUD_INPUT_LISTENER_TABLE"],
                                    LuaLineFrom(line), <<>>, {})
         IN [st |-> w.st,
             line |-> IF w.err THEN [line EXCEPT !.matched = TRUE] ELSE line,
             invoked |-> w.invoked, fired |-> w.fired, err |-> w.err,
             events |-> exec_lua(w)]

\* on_mud_input without the bypass_script test
on_mud_input_unguarded(st, line) ==
    LET w == WalkLineListeners(st, st.tables["MUD_INPUT_LISTENER_TABLE"],
                               LuaLineFrom(line), <<>>, {})
    IN [st |-> w.st,
        line |-> IF w.err THEN [line EXCEPT !.matched = TRUE]
                 ELSE WriteBack(w.lline),
        invoked |-> w.invoked, fired |-> w.fired, err |-> w.err,
        events |-> exec_lua(w)]

on_mud_input(st, line) ==
    IF line.bypass_script THEN Skipped(st, line)
    ELSE LET w == WalkLineListeners(st, st.tables["MUD_INPUT_LISTENER_TABLE"],
                                    LuaLineFrom(line), <<>>, {})
         IN [st |-> w.st,
             line |-> IF w.err THEN [line EXCEPT !.matched = TRUE]
                      ELSE WriteBack(w.lline),
             invoked |-> w.invoked, fired |-> w.fired, err |-> w.err,
             events |-> exec_lua(w)]

\* on_connect writing the registry only once the listeners have returned
on_connect_late(st, id) ==
    LET w == WalkListeners(st.tables["ON_CONNECTION_CALLBACK_TABLE"])
        s2 == [st EXCEPT !.registry.IS_CONNECTED = Some(TRUE),
                         !.registry.CONNECTION_ID = Some(id)]
    IN [st |-> IF w.err THEN st ELSE s2, invoked |-> w.invoked, err |-> w.err,
        seen |-> IF w.invoked # <<>> THEN Some(st.registry) ELSE None,
        events |-> exec_lua(w)]

\* on_connect that writes CONNECTION_ID only while the registry holds none
on_connect_keeps_id(st, id) ==
    LET s1 == [st EXCEPT !.registry.IS_CONNECTED = Some(TRUE)]
        s2 == IF s1.registry.CONNECTION_ID = None
              THEN [s1 EXCEPT !.registry.CONNECTION_ID = Some(id)]
              ELSE s1
        w == WalkListeners(s2.tables["ON_CONNECTION_CALLBACK_TABLE"])
    IN [st |-> s2, invoked |-> w.invoked, err |-> w.err,
        seen |-> IF w.invoked # <<>> THEN Some(s2.registry) ELSE None,
        events |-> exec_lua(w)]

on_connect(st, id) ==
    LET s1 == [st EXCEPT !.registry.IS_CONNECTED = Some(TRUE)]
        s2 == [s1 EXCEPT !.registry.CONNECTION_ID = Some(id)]
        w == WalkListeners(s2.tables["ON_CONNECTION_CALLBACK_TABLE"])
    IN [st |-> s2, invoked |-> w.invoked, err |-> w.err,
        seen |-> IF w.invoked # <<>> THEN Some(s2.registry) ELSE None,
        events |-> exec_lua(w)]

on_disconnect(st) ==
    LET s1 == [st EXCEPT !.registry.IS_CONNECTED = Some(FALSE)]
        w == WalkListeners(s1.tables["ON_DISCONNECT_CALLBACK_TABLE"])
    IN [st |-> s1, invoked |-> w.invoked, err |-> w.err,
        seen |-> IF w.invoked # <<>> THEN Some(s1.registry) ELSE None,
        events |-> exec_lua(w)]

\* reset that carries the registry values over
reset_keeps_registry(st) ==
    [create_default_lua_state(Some(st.store), 1 - st.epoch, st.core_timers,
                              st.failing)
       EXCEPT !.registry = st.registry]

\* reset that carries the timed callbacks and their counter over
reset_keeps_timers(st) ==
    [create_default_lua_state(Some(st.store), 1 - st.epoch, st.core_timers,
                              st.failing)
       EXCEPT !.timed_user = st.timed_user,
              !.next_timed_id = st.next_timed_id]

\* reset that builds the new interpreter without the old store
reset_without_store(st) ==
    create_default_lua_state(None, 1 - st.epoch, st.core_timers, st.failing)

\* reset(dimensions): the store global is taken out of the old interpreter
\* and handed to the new one
reset(st) ==
    create_default_lua_state(Some(st.store), 1 - st.epoch, st.core_timers,
                             st.failing)

\* ------------------------------------------------------------------------
\* Timers
\* ------------------------------------------------------------------------

\* a registry table indexed by id, without the entry of id (table[id] = nil)
Without(table, id) == [i \in DOMAIN table \ {id} |-> table[i]]

\* func.call::<_, ()>(()) of a timed callback
CallTimed(cb) ==
    [invoked |-> <<cb>>, err |-> cb.act = "raise",
     trace |-> IF cb.act = "raise" THEN 1 ELSE 0]

NothingCalled == [invoked |-> <<>>, err |-> FALSE, trace |-> 0]

\* run_timed_function looking in the user table only
run_timed_function_user_only(st, id) ==
    LET r == IF id \in DOMAIN st.timed_user THEN CallTimed(st.timed_user[id])
             ELSE NothingCalled
    IN [st |-> st, invoked |-> r.invoked, err |-> r.err, events |-> exec_lua(r)]

\* run_timed_function(id)
run_timed_function(st, id) ==
    LET r == IF id \in DOMAIN st.timed_core THEN CallTimed(st.timed_core[id])
             ELSE IF id \in DOMAIN st.timed_user
             THEN CallTimed(st.timed_user[id])
             ELSE NothingCalled
    IN [st |-> st, invoked |-> r.invoked, err |-> r.err, events |-> exec_lua(r)]

\* remove_timed_function clearing the user table only
remove_timed_function_user_only(st, id) ==
    [st |-> [st EXCEPT !.timed_user = Without(@, id)],
     invoked |-> <<>>, err |-> FALSE, events |-> <<>>]

\* remove_timed_function(id): core_table.set(id, Nil); table.set(id, Nil)
remove_timed_function(st, id) ==
    LET s1 == [st EXCEPT !.timed_core = Without(@, id)]
        s2 == [s1 EXCEPT !.timed_user = Without(@, id)]
    IN [st |-> s2, invoked |-> <<>>, err |-> FALSE,
        events |-> exec_lua(NothingCalled)]

\* pair.1.call::<_, ()>(millis)? over the chain of tick callbacks
RECURSIVE TickLoop(_, _, _, _)
TickLoop(st, todo, millis, invoked) ==
    IF todo = <<>>
    THEN [st |-> st, invoked |-> invoked, err |-> FALSE, trace |-> 0]
    ELSE LET cb == Head(todo)
             inv == Append(invoked, cb)
         IN CASE cb.act = "raise" ->
                   [st |-> st, invoked |-> inv, err |-> TRUE, trace |-> Len(inv)]
              [] cb.act = "sum" ->
                   TickLoop([st EXCEPT !.total_millis = @ + millis], Tail(todo),
                            millis, inv)
              [] OTHER -> TickLoop(st, Tail(todo), millis, inv)

\* tick walking the user table before the core table
tick_user_first(st, millis) ==
    LET w == TickLoop(st, st.tick_user \o st.tick_core, millis, <<>>)
    IN [st |-> w.st, invoked |-> w.invoked, err |-> w.err,
        events |-> exec_lua(w)]

\* tick(millis): the core table chained with the user table
tick(st, millis) ==
    LET w == TickLoop(st, st.tick_core \o st.tick_user, millis, <<>>)
    IN [st |-> w.st, invoked |-> w.invoked, err |-> w.err,
        events |-> exec_lua(w)]

\* timer.add(delay, count, f): the next id of the shared counter, the entry in
\* the core or the user table
TimerAdd(st, act) ==
    LET id == st.next_timed_id
        cb == Callback(act, st.core_mode, st.epoch)
    IN [st EXCEPT !.timed_core = IF st.core_mode THEN (id :> cb) @@ @ ELSE @,
                  !.timed_user = IF st.core_mode THEN @ ELSE (id :> cb) @@ @,
                  !.next_timed_id = id + 1]

\* timer.on_tick(f)
TimerOnTick(st, act) ==
    LET cb == Callback(act, st.core_mode, st.epoch)
    IN [st EXCEPT !.tick_core = IF st.core_mode THEN Append(@, cb) ELSE @,
                  !.tick_user = IF st.core_mode THEN @ ELSE Append(@, cb)]

\* ------------------------------------------------------------------------
\* Key bindings
\* ------------------------------------------------------------------------

\* the key specifications test_bindings binds, and the commands it looks up
BindKeys == {"ctrl-a", "f1", "ESC[1;5A"}

BindCommands == {"ctrl-a", "f1", "ctrl-0", "ESC[1;5a", "ESC[1;5A"}

\* str::to_lowercase for the keys of the model
ToLowercase(key) == IF key = "ESC[1;5A" THEN "ESC[1;5a" ELSE key

\* blight.bind(keyspec, f): the callback under the lower-cased key
Bind(st, key, act) ==
    [st EXCEPT !.bindings =
       (ToLowercase(key) :> Callback(act, st.core_mode, st.epoch)) @@ @]

\* check_bindings answering whether the callback returned without error
check_bindings_ok_only(st, cmd) ==
    LET r == IF cmd \in DOMAIN st.bindings THEN CallTimed(st.bindings[cmd])
             ELSE NothingCalled
    IN [st |-> st, response |-> r.invoked # <<>> /\ ~r.err,
        invoked |-> r.invoked, err |-> r.err, events |-> exec_lua(r)]

\* check_bindings(cmd)
check_bindings(st, cmd) ==
    LET found == cmd \in DOMAIN st.bindings
        \* callback.call::<_, ()>(()) when bind_table.get(cmd) is a function
        r == IF found THEN CallTimed(st.bindings[cmd]) ELSE NothingCalled
    IN [st |-> st, response |-> found,
        invoked |-> r.invoked, err |-> r.err, events |-> exec_lua(r)]

\* ------------------------------------------------------------------------
\* Tab completion
\* ------------------------------------------------------------------------

\* the completion words of the tests, in ascending (byte) order
Words == <<"batman", "batmobile", "robin">>

Rank(w) == CHOOSE i \in DOMAIN Words : Words[i] = w

\* the inputs the tests complete
Inputs == {"bat", "batm", "rob", "fail"}

\* Lua values a completion callback returns
LuaTable(seq) == [t |-> "table", tbl |-> seq]

LuaBoolean(b) == [t |-> "boolean", bool |-> b]

LuaNil == [t |-> "nil"]

\* the completion functions of a script, by name, as the values each returns
\* for an input (the MultiValue of cb.call); "raise" raises instead
Completers ==
    {"plain", "lock", "lock_bat_only", "unsorted", "nil_unlock", "raise"}

CompleterReturns(f, input) ==
    CASE f = "plain" ->
           \* confirm_completion
           (CASE input = "bat" -> <<LuaTable(<<"batman">>)>>
              [] input = "batm" -> <<LuaTable(<<"batman", "batmobile">>)>>
              [] OTHER -> <<LuaNil>>)
      [] f = "lock" ->
           \* confirm_completion_lock
           (CASE input = "bat" -> <<LuaTable(<<"batman">>), LuaBoolean(TRUE)>>
              [] input = "batm" ->
                   <<LuaTable(<<"batman", "batmobile">>), LuaBoolean(FALSE)>>
              [] input = "fail" -> <<LuaBoolean(TRUE)>>
              [] OTHER -> <<LuaTable(<<>>), LuaBoolean(TRUE)>>)
      [] f = "lock_bat_only" ->
           \* if i == "bat" then return {"batman"}, true end
           (CASE input = "bat" -> <<LuaTable(<<"batman">>), LuaBoolean(TRUE)>>
              [] OTHER -> <<>>)
      [] f = "unsorted" -> <<LuaTable(<<"robin", "batman", "robin">>)>>
      [] f = "nil_unlock" -> <<LuaNil, LuaBoolean(FALSE)>>
      [] OTHER -> <<>>

\* comps.sort(): the same strings, ascending, duplicates kept
RECURSIVE SortFrom(_, _)
SortFrom(comps, r) ==
    IF r > Len(Words) THEN <<>>
    ELSE SelectSeq(comps, LAMBDA w : Rank(w) = r) \o SortFrom(comps, r + 1)

Sort(comps) == SortFrom(comps, 1)

\* Completions::default()
CompletionsDefault == [entries |-> <<>>, locked |-> FALSE]

\* Completions::add_all(&mut comps): entries stays sorted, without duplicates
add_all(completions, comps) ==
    LET all == Range(completions.entries) \cup Range(comps)
    IN [completions EXCEPT
          !.entries = SelectSeq(Words, LAMBDA w : w \in all)]

\* Completions::lock(lock)
lock(completions, l) == [completions EXCEPT !.locked = l]

\* the body of the loop of tab_complete for the values one callback returned
AddResult(completions, result) ==
    IF result = <<>> THEN completions
    ELSE LET c1 == IF result[1].t = "table"
                   THEN add_all(completions, Sort(result[1].tbl))
                   ELSE completions
         IN IF Len(result) >= 2 /\ result[2].t = "boolean"
            THEN lock(c1, result[2].bool)
            ELSE c1

\* for cb in cb_table.sequence_values() { ... cb.call(input)? ... }
RECURSIVE CompleteLoop(_, _, _, _)
CompleteLoop(todo, input, completions, invoked) ==
    IF todo = <<>>
    THEN [completions |-> completions, invoked |-> invoked, err |-> FALSE,
          trace |-> 0]
    ELSE LET cb == Head(todo)
             inv == Append(invoked, cb)
         IN IF cb.act = "raise"
            THEN [completions |-> completions, invoked |-> inv, err |-> TRUE,
                  trace |-> Len(inv)]
            ELSE CompleteLoop(Tail(todo), input,
                              AddResult(completions,
                                        CompleterReturns(cb.act, input)),
                              inv)

\* tab_complete that starts from a locked Completions
tab_complete_starts_locked(st, input) ==
    LET w == CompleteLoop(st.completion, input,
                          lock(CompletionsDefault, TRUE), <<>>)
    IN [completions |-> IF w.err THEN CompletionsDefault ELSE w.completions,
        invoked |-> w.invoked, err |-> w.err, events |-> exec_lua(w)]

\* tab_complete that keeps what it collected before the error
tab_complete_partial(st, input) ==
    LET w == CompleteLoop(st.completion, input, CompletionsDefault, <<>>)
    IN [completions |-> w.completions,
        invoked |-> w.invoked, err |-> w.err, events |-> exec_lua(w)]

\* tab_complete that asks only the first completion callback
tab_complete_first(st, input) ==
    LET w == CompleteLoop(IF st.completion = <<>> THEN <<>>
                          ELSE <<Head(st.completion)>>,
                          input, CompletionsDefault, <<>>)
    IN [completions |-> IF w.err THEN CompletionsDefault ELSE w.completions,
        invoked |-> w.invoked, err |-> w.err, events |-> exec_lua(w)]

\* tab_complete that reads the lock from the first returned value
tab_complete_first_value_lock(st, input) ==
    LET w == CompleteLoop(st.completion, input, CompletionsDefault, <<>>)
        first == [i \in DOMAIN w.invoked |->
                    CompleterReturns(w.invoked[i].act, input)]
        locks == {i \in DOMAIN first :
                    first[i] # <<>> /\ first[i][1].t = "boolean"}
        c == IF locks = {} THEN w.completions
             ELSE lock(w.completions, TRUE)
    IN [completions |-> IF w.err THEN CompletionsDefault ELSE c,
        invoked |-> w.invoked, err |-> w.err, events |-> exec_lua(w)]

\* tab_complete(input): exec_lua(...).unwrap_or_default()
tab_complete(st, input) ==
    LET w == CompleteLoop(st.completion, input, CompletionsDefault, <<>>)
    IN [completions |-> IF w.err THEN CompletionsDefault ELSE w.completions,
        invoked |-> w.invoked, err |-> w.err, events |-> exec_lua(w)]

\* ------------------------------------------------------------------------
\* Scripts handed to eval: calls of the script API
\* ------------------------------------------------------------------------

AddListenerScripts(tables) ==
    {[kind |-> "add_listener", table |-> tbl, act |-> a] :
       tbl \in tables \cap LineTables, a \in {"pass", "raise", "gag"}}
    \cup {[kind |-> "add_listener", table |-> tbl, act |-> a] :
            tbl \in tables \ LineTables, a \in {"pass", "raise"}}

\* mud.add_output_listener(cb) for the listeners that change the line
OutputScripts ==
    {[kind |-> "add_listener", table |-> "MUD_OUTPUT_LISTENER_TABLE", act |-> a] :
       a \in {"pass", "raise", "gag", "replace", "replace_gagged"}}

RaiseScript == [kind |-> "raise"]

StoreKeys == {"hp"}

StoreScripts == {[kind |-> "store_write", key |-> k] : k \in StoreKeys}

\* the options of trigger.add the model draws from
NoOpts == [gag |-> FALSE, prompt |-> FALSE, count |-> None, enabled |-> TRUE]

TriggerAddScript(re, opts, cb) ==
    [kind |-> "trigger_add", regex |-> re, opts |-> opts, cb |-> cb]

AliasAddScript(re, cb) == [kind |-> "alias_add", regex |-> re, cb |-> cb]

TriggerScripts ==
    {TriggerAddScript("^test$", NoOpts, "ok"),
     TriggerAddScript("test", NoOpts, "ok"),
     TriggerAddScript("^test$", NoOpts, "raise"),
     TriggerAddScript("^test$", [NoOpts EXCEPT !.gag = TRUE], "ok"),
     TriggerAddScript("^test$", [NoOpts EXCEPT !.prompt = TRUE], "ok"),
     TriggerAddScript("^test$", [NoOpts EXCEPT !.enabled = FALSE], "ok"),
     TriggerAddScript("^test$", [NoOpts EXCEPT !.count = Some(1)], "raise")}
    \cup {TriggerAddScript("^test$", [NoOpts EXCEPT !.count = Some(n)], "ok") :
            n \in 1..MaxCount}
    \cup {[kind |-> "trigger_remove", id |-> i] : i \in 1..MaxTriggers}

AliasScripts ==
    {AliasAddScript(re, c) : re \in Patterns, c \in {"ok", "raise"}}
    \cup {[kind |-> "alias_remove", id |-> i] : i \in 1..MaxTriggers}

\* prompt texts, and the mask tables a script passes to prompt_mask.set
Prompts == {"", "hp>", "mp>", "hp:10>"}

MaskValues == {<<"x">>, <<"x", "x">>, <<MultiByteChar>>}

MaskTables(keys) ==
    UNION {[ks -> MaskValues] : ks \in SUBSET keys}

\* one callback that sets the prompt, reads it back and masks it
PromptRaceScripts ==
    {[kind |-> "prompt_set_get_mask", line |-> t, data |-> p, mask |-> m] :
       t \in Prompts, p \in Prompts, m \in MaskTables({1})}

PromptScripts ==
    {[kind |-> "prompt_set", line |-> p] : p \in Prompts}
    \cup {[kind |-> "prompt_mask_set", data |-> p, mask |-> m] :
            p \in Prompts, m \in MaskTables({1, 3})}

UserListeners(st) ==
    {<<tbl, i>> \in ListenerTables \X (1..(MaxListeners + 1)) :
       i \in DOMAIN st.tables[tbl] /\ ~st.tables[tbl][i].core}

\* ids the scripts of one interpreter can be handed by timer.add
FirstTimerId(st) == IF st.core_timers THEN 2 ELSE 1

TimerScripts == {[kind |-> "timer_add", act |-> a] : a \in {"pass", "raise"}}

TickScripts ==
    {[kind |-> "on_tick", act |-> a] : a \in {"sum", "pass", "raise"}}

CompleteScripts == {[kind |-> "on_complete", f |-> f] : f \in Completers}

BindScripts ==
    {[kind |-> "bind", key |-> k, act |-> a] :
       k \in BindKeys, a \in {"pass", "raise"}}

\* the bounds of the model, as a guard on what a script may still add
ScriptAllowed(st, script) ==
    CASE script.kind = "add_listener" ->
           /\ Cardinality(UserListeners(st)) < MaxListeners
           /\ Len(st.tables[script.table]) <= MaxListeners
      [] script.kind = "trigger_add" -> st.next_trigger_id <= MaxTriggers
      [] script.kind = "alias_add" -> st.next_alias_id <= MaxTriggers
      [] script.kind = "on_complete" -> Len(st.completion) < MaxCompleters
      [] script.kind = "package_path_append" ->
           Len(st.package_path) < Len(DefaultPackagePath) + MaxPath
      [] script.kind = "timer_add" ->
           st.next_timed_id < FirstTimerId(st) + MaxTimers
      [] script.kind = "on_tick" ->
           /\ Len(st.tick_user) < MaxTickers
           /\ Len(st.tick_core) <= MaxTickers
      [] OTHER -> TRUE

\* prompt.set that sends the event and leaves the registry to the main loop
prompt_set_event_only(st, line) ==
    [st |-> st, events |-> <<[type |-> "SetPromptInput", text |-> line]>>]

\* prompt.get(): the registry value
prompt_get(st) == st.registry.PROMPT_CONTENT

\* prompt.set(line): the event first, then the registry
prompt_set(st, line) ==
    [st |-> [st EXCEPT !.registry.PROMPT_CONTENT = line],
     events |-> <<[type |-> "SetPromptInput", text |-> line]>>]

\* prompt_mask.set comparing nothing
prompt_mask_set_unchecked(st, data, mask_table) ==
    [st |-> st, ret |-> TRUE,
     events |-> <<[type |-> "SetPromptMask",
                   mask |-> PromptMaskFrom(mask_table)]>>]

\* prompt_mask.set(data, mask)
prompt_mask_set(st, data, mask_table) ==
    IF st.registry.PROMPT_CONTENT # data
    THEN [st |-> st, ret |-> FALSE, events |-> <<>>]
    ELSE [st |-> st, ret |-> TRUE,
          events |-> <<[type |-> "SetPromptMask",
                        mask |-> PromptMaskFrom(mask_table)]>>]

\* ------------------------------------------------------------------------
\* prompt.set_cursor / prompt.get_cursor (src/lua/prompt.rs).  A u32 is the
\* pair <<high, low>> of its 16-bit halves.
\* ------------------------------------------------------------------------

Limb == 65536

U32(n) == <<n \div Limb, n % Limb>>

U32Max == <<Limb - 1, Limb - 1>>

\* u32::checked_sub(x, 1): None when the result would be below zero
U32CheckedSub1(x) ==
    IF x = U32(0) THEN None
    ELSE IF x[2] > 0 THEN Some(<<x[1], x[2] - 1>>)
    ELSE Some(<<x[1] - 1, Limb - 1>>)

\* u32::wrapping_sub(x, 1)
U32WrappingSub1(x) ==
    IF U32CheckedSub1(x) = None THEN U32Max ELSE Unwrap(U32CheckedSub1(x))

SetPromptInputCursor(offset) ==
    [type |-> "SetPromptInputCursor", offset |-> offset]

\* the outcome of a library function: the interpreter state, whether the
\* native code panicked, whether it returned Err, its value and its events
Outcome(st, panic, err, ret, events) ==
    [st |-> st, panic |-> panic, err |-> err, trace |-> IF err THEN 1 ELSE 0,
     ret |-> ret, events |-> events]

\* prompt.set_cursor(offset): the outcomes the builds produce. `offset - 1`
\* on u32 panics where overflow checks are compiled in and wraps where not.
prompt_set_cursor(st, offset) ==
    LET \* ctx.set_named_registry_value(PROMPT_CURSOR_POS, offset as usize)
        s1 == [st EXCEPT !.registry.PROMPT_CURSOR_POS = Some(offset)]
        sends(o) == Outcome(s1, FALSE, FALSE, Nil, <<SetPromptInputCursor(o)>>)
    IN IF U32CheckedSub1(offset) # None
       THEN {sends(Unwrap(U32CheckedSub1(offset)))}
       ELSE {Outcome(s1, TRUE, FALSE, Nil, <<>>),
             sends(U32WrappingSub1(offset))}

\* prompt.get_cursor(): the registry value as u32, an error when there is none
prompt_get_cursor(st) ==
    IF st.registry.PROMPT_CURSOR_POS = None
    THEN Outcome(st, FALSE, TRUE, Nil, <<>>)
    ELSE Outcome(st, FALSE, FALSE, st.registry.PROMPT_CURSOR_POS, <<>>)

\* the positions scripts hand to prompt.set_cursor
CursorArgs == {U32(n) : n \in 0..MaxCursor} \cup {U32(Limb), U32Max}

\* ------------------------------------------------------------------------
\* prompt_mask.set as a script can call it (src/lua/prompt_mask.rs,
\* src/model/prompt_mask.rs): any Lua string, any Lua table
\* ------------------------------------------------------------------------

LuaInteger(i) == [t |-> "integer", int |-> i]

LuaString(str) == [t |-> "string", str |-> str]

\* a Lua string that is not valid UTF-8 ("\xff")
InvalidUtf8 == "\\xff"

\* LuaString::to_str(): Ok exactly for valid UTF-8
ToStrOk(data) == data # InvalidUtf8

\* whether pairs::<LuaInt, LuaString>() yields Ok for the pair
PairOk(pair) == pair[1].t = "integer" /\ pair[2].t = "string"

\* the mask tables scripts hand to prompt_mask.set, as their pairs
MaskPairs ==
    {<<>>,
     << <<LuaInteger(1), LuaString(<<"x">>)>> >>,
     << <<LuaInteger(1), LuaString(<<"x">>)>>,
        <<LuaInteger(3), LuaString(<<"x", "x">>)>> >>,
     << <<LuaString(<<"a">>), LuaString(<<"x">>)>> >>,
     << <<LuaInteger(1), LuaBoolean(TRUE)>> >>,
     << <<LuaInteger(1), LuaString(<<"x">>)>>,
        <<LuaInteger(3), LuaBoolean(TRUE)>> >>}

\* the pairs of the table that convert, as the table of their strings
PairsTable(pairs) ==
    LET ok == {i \in DOMAIN pairs : PairOk(pairs[i])}
    IN [k \in {pairs[i][1].int : i \in ok} |->
          pairs[CHOOSE i \in ok : pairs[i][1].int = k][2].str]

\* the closure of prompt_mask.set with every unwrap() of its path;
\* writer_open: the receiving end of the event bus is still there
prompt_mask_set_call(st, data, pairs, writer_open) ==
    LET panics == Outcome(st, TRUE, FALSE, Nil, <<>>)
        r == prompt_mask_set(st, data, PairsTable(pairs))
        returns == Outcome(r.st, FALSE, FALSE,
                           IF r.ret THEN "true" ELSE "false", r.events)
    IN \* data.to_str().unwrap()
       IF ~ToStrOk(data) THEN panics
       \* if prompt_data != mask_data { return Ok(false) }
       ELSE IF st.registry.PROMPT_CONTENT # data THEN returns
       \* PromptMask::from(mask): pair.unwrap()
       ELSE IF \E i \in DOMAIN pairs : ~PairOk(pairs[i]) THEN panics
       \* backend.writer.send(Event::SetPromptMask(..)).unwrap()
       ELSE IF ~writer_open THEN panics
       ELSE returns

\* ------------------------------------------------------------------------
\* spellcheck (src/lua/spellcheck.rs).  Hunspell is the dictionary it was
\* made from, by name.
\* ------------------------------------------------------------------------

Dictionaries == {"en", "sv"}

SpellWords == {"hello", "helo", "help", "hej", "xyz"}

\* Hunspell::check(word) is not MissingInDictionary
HunspellKnows(dict, word) ==
    \/ dict = "en" /\ word \in {"hello", "help"}
    \/ dict = "sv" /\ word = "hej"

\* Hunspell::suggest(word)
HunspellSuggest(dict, word) ==
    CASE dict = "en" /\ word \in {"hello", "helo", "help"} -> <<"hello", "help">>
      [] dict = "sv" /\ word = "hej" -> <<"hej">>
      [] OTHER -> <<>>

\* spellcheck.init(aff_path, dict_path): self.hunspell.replace(..)
spellcheck_init(st, dict) ==
    Outcome([st EXCEPT !.hunspell = Some(dict)], FALSE, FALSE, Nil, <<>>)

\* spellcheck.check answering false while there is no dictionary
spellcheck_check_lenient(st, word) ==
    IF st.hunspell = None THEN Outcome(st, FALSE, FALSE, "false", <<>>)
    ELSE Outcome(st, FALSE, FALSE,
                 IF HunspellKnows(Unwrap(st.hunspell), word) THEN "true"
                 ELSE "false", <<>>)

\* spellcheck.check(word): this.check(..).map_err(LuaError::external)?
spellcheck_check(st, word) ==
    \* check_initialized()?: Err(anyhow!("spellchecker not initialized"))
    IF st.hunspell = None THEN Outcome(st, FALSE, TRUE, Nil, <<>>)
    ELSE Outcome(st, FALSE, FALSE,
                 IF HunspellKnows(Unwrap(st.hunspell), word) THEN "true"
                 ELSE "false", <<>>)

\* spellcheck.suggest(word): the suggestions under the keys 0, 1, ..
\* (res_table.set(i, v) over enumerate())
spellcheck_suggest(st, word) ==
    IF st.hunspell = None THEN Outcome(st, FALSE, TRUE, Nil, <<>>)
    ELSE LET sugg == HunspellSuggest(Unwrap(st.hunspell), word)
         IN Outcome(st, FALSE, FALSE,
                    [i \in 0..(Len(sugg) - 1) |-> sugg[i + 1]], <<>>)

Returned(st, ret, events) ==
    [st |-> st, err |-> FALSE, trace |-> 0, ret |-> ret, events |-> events]

Raised(st, events) ==
    [st |-> st, err |-> TRUE, trace |-> 1, ret |-> Nil, events |-> events]

\* the effect of the script's API call on the interpreter state
RunScript(st, script) ==
    CASE script.kind = "add_listener" ->
           \* table.set(table.raw_len() + 1, func)
           Returned([st EXCEPT !.tables[script.table] =
                       Append(@, Callback(script.act, st.core_mode, st.epoch))],
                    Nil, <<>>)
      [] script.kind = "raise" -> Raised(st, <<>>)
      [] script.kind = "store_write" ->
           Returned([st EXCEPT !.store = @ \cup {script.key}], Nil, <<>>)
      [] script.kind = "trigger_add" ->
           Returned(TriggerAdd(st, script.regex, script.opts, script.cb),
                    Nil, <<>>)
      [] script.kind = "trigger_remove" ->
           Returned(TriggerRemove(st, script.id), Nil, <<>>)
      [] script.kind = "alias_add" ->
           Returned(AliasAdd(st, script.regex, script.cb), Nil, <<>>)
      [] script.kind = "alias_remove" ->
           Returned(AliasRemove(st, script.id), Nil, <<>>)
      [] script.kind = "timer_add" ->
           Returned(TimerAdd(st, script.act), st.next_timed_id, <<>>)
      [] script.kind = "on_tick" ->
           Returned(TimerOnTick(st, script.act), Nil, <<>>)
      [] script.kind = "package_path_append" ->
           \* package.path = package.path .. ";<dir>/?.lua"
           Returned([st EXCEPT !.package_path =
                       Append(@, Append(script.dir, "?.lua"))],
                    Nil, <<>>)
      [] script.kind = "on_complete" ->
           \* blight.on_complete(f)
           Returned([st EXCEPT !.completion =
                       Append(@, Callback(script.f, st.core_mode, st.epoch))],
                    Nil, <<>>)
      [] script.kind = "bind" ->
           Returned(Bind(st, script.key, script.act), Nil, <<>>)
      [] script.kind = "prompt_set" ->
           LET r == prompt_set(st, script.line)
           IN Returned(r.st, Nil, r.events)
      [] script.kind = "prompt_mask_set" ->
           LET r == prompt_mask_set(st, script.data, script.mask)
           IN Returned(r.st, IF r.ret THEN "true" ELSE "false", r.events)
      [] script.kind = "prompt_set_get_mask" ->
           \* prompt.set(line); local got = prompt.get()
           \* return got, prompt_mask.set(data, mask)
           LET r1 == prompt_set(st, script.line)
               got == prompt_get(r1.st)
               r2 == prompt_mask_set(r1.st, script.data, script.mask)
           IN Returned(r2.st, [got |-> got, accepted |-> r2.ret],
                       r1.events \o r2.events)

\* eval(script): self.state.load(script).exec() under exec_lua
eval(st, script) ==
    LET r == RunScript(st, script)
    IN [st |-> r.st, err |-> r.err, ret |-> r.ret,
        events |-> r.events \o exec_lua(r)]

\* expand_tilde(path): a leading ~ becomes the home directory
Home == <<"home", "user">>

expand_tilde(path) ==
    IF path # <<>> /\ Head(path) = "~" THEN Home \o Tail(path) ELSE path

\* file_path.rsplit_once('/').unwrap_or(("", "")).0
DirOf(file_path) ==
    IF Len(file_path) <= 1 THEN <<>>
    ELSE SubSeq(file_path, 1, Len(file_path) - 1)

\* the script files on disk, by path, each with the script it holds
ScriptFiles ==
    (<<"~", "scripts", "raise.lua">> :> [kind |-> "raise"])
    @@ (<<"scripts", "path.lua">> :>
          [kind |-> "package_path_append", dir |-> <<"lib">>])
    @@ (<<"main.lua">> :>
          [kind |-> "add_listener", table |-> "ON_CONNECTION_CALLBACK_TABLE",
           act |-> "pass"])

\* paths handed to load_script: those of the script files, and one without
\* a file
LoadPaths == DOMAIN ScriptFiles \cup {<<"scripts", "missing.lua">>}

FileOpenFailed(st) ==
    [st |-> st, io_err |-> TRUE, err |-> FALSE, seen |-> None, events |-> <<>>]

\* load_script returning the script's error before it restores the path
load_script_unrestored(st, path) ==
    IF path \notin DOMAIN ScriptFiles THEN FileOpenFailed(st)
    ELSE LET dir == DirOf(expand_tilde(path))
             ppath == st.package_path
             s1 == [st EXCEPT !.package_path = <<Append(dir, "?.lua")>> \o ppath]
             result == RunScript(s1, ScriptFiles[path])
             s2 == IF result.err THEN result.st
                   ELSE [result.st EXCEPT !.package_path = ppath]
         IN [st |-> s2, io_err |-> FALSE, err |-> result.err,
             seen |-> Some(s1.package_path),
             events |-> result.events \o exec_lua(result)]

\* load_script(path)
load_script(st, path) ==
    IF path \notin DOMAIN ScriptFiles THEN FileOpenFailed(st)
    ELSE LET dir == DirOf(expand_tilde(path))
             ppath == st.package_path
             \* package.set("path", format!("{0}/?.lua;{1}", dir, ppath))
             s1 == [st EXCEPT !.package_path = <<Append(dir, "?.lua")>> \o ppath]
             result == RunScript(s1, ScriptFiles[path])
             \* package.set("path", ppath)
             s2 == [result.st EXCEPT !.package_path = ppath]
         IN [st |-> s2, io_err |-> FALSE, err |-> result.err,
             seen |-> Some(s1.package_path),
             events |-> result.events \o exec_lua(result)]

\* set_prompt_content(content)
set_prompt_content(st, content) ==
    [st EXCEPT !.registry.PROMPT_CONTENT = content]

\* ------------------------------------------------------------------------
\* The version-check worker (src/net/check_version.rs).  A version tag is
\* the sequence of its characters.
\* ------------------------------------------------------------------------

\* the tags of the tests: v10.0.0, v9.0.0, v8.0.0, v1.0.0, v0.9.9
Tags ==
    {<<"v", "1", "0", ".", "0", ".", "0">>, <<"v", "9", ".", "0", ".", "0">>,
     <<"v", "8", ".", "0", ".", "0">>, <<"v", "1", ".", "0", ".", "0">>,
     <<"v", "0", ".", "9", ".", "9">>}

\* the byte of a character of a tag
Byte(ch) ==
    CASE ch = "." -> 46
      [] ch = "0" -> 48
      [] ch = "1" -> 49
      [] ch = "8" -> 56
      [] ch = "9" -> 57
      [] ch = "v" -> 118

\* String::cmp: the order of the bytes, a proper prefix being smaller
RECURSIVE StrCmp(_, _)
StrCmp(a, b) ==
    CASE a = <<>> /\ b = <<>> -> "Equal"
      [] a = <<>> /\ b # <<>> -> "Less"
      [] a # <<>> /\ b = <<>> -> "Greater"
      [] OTHER ->
           IF Byte(Head(a)) < Byte(Head(b)) THEN "Less"
           ELSE IF Byte(Head(a)) > Byte(Head(b)) THEN "Greater"
           ELSE StrCmp(Tail(a), Tail(b))

\* a sort that puts the smallest tag first
RECURSIVE SortAscending(_)
SortAscending(tags) ==
    IF tags = {} THEN <<>>
    ELSE LET m == CHOOSE x \in tags :
                    \A y \in tags : StrCmp(x, y) \in {"Less", "Equal"}
         IN <<m>> \o SortAscending(tags \ {m})

\* version_tags.sort_by(|a, b| b.cmp(a)): descending
RECURSIVE SortDescending(_)
SortDescending(tags) ==
    IF tags = {} THEN <<>>
    ELSE LET m == CHOOSE x \in tags :
                    \A y \in tags : StrCmp(x, y) \in {"Greater", "Equal"}
         IN <<m>> \o SortDescending(tags \ {m})

\* Fetcher::fetch(): the tags of the repository, newest first, or nothing
\* when the clone or the fetch failed (repo = None)
Fetcher_fetch(repo) ==
    IF repo = None THEN <<>> ELSE SortDescending(Unwrap(repo))

\* what the fetchers handed to run deliver: the Fetcher over the repository
\* as it may be, and the mock fetchers of the tests returning a list as is
Fetched ==
    {Fetcher_fetch(None)}
    \cup {Fetcher_fetch(Some(ts)) : ts \in SUBSET Tags}
    \cup {<<a>> : a \in Tags}
    \cup {<<a, b>> : a \in Tags, b \in Tags}

BLIGHTMUD_RELEASE_URL_PREFIX ==
    "https://github.com/Blightmud/Blightmud/releases/tag/"

\* the two messages of run, each as the pieces format! puts together
NewerNotice(current, latest) ==
    [type |-> "Info",
     text |-> <<"There is a newer version of Blightmud available. (current: ",
                current, ", new: ", latest, ")">>]

VisitNotice(latest) ==
    [type |-> "Info",
     text |-> <<"Visit ", <<BLIGHTMUD_RELEASE_URL_PREFIX, latest>>,
                " to upgrade to latest version">>]

\* run that also reports a latest tag equal to the running version
run_unless_less(current, fetched) ==
    IF fetched = <<>> THEN <<>>
    ELSE LET latest == Head(fetched)
         IN IF StrCmp(latest, current) # "Less"
            THEN <<NewerNotice(current, latest), VisitNotice(latest)>>
            ELSE <<>>

\* run(writer, current, fetcher): the events it sends, in order
run(current, fetched) ==
    IF fetched = <<>> THEN <<>>
    ELSE LET latest == Head(fetched)
         IN IF StrCmp(latest, current) = "Greater"
            THEN <<NewerNotice(current, latest), VisitNotice(latest)>>
            ELSE <<>>

\* ------------------------------------------------------------------------
\* Printable-chars iterators (src/ui/printable_chars.rs).  An input is the
\* sequence of its ASCII characters; ESC and BEL stand for 0x1b and 0x07.
\* ------------------------------------------------------------------------

ESC == "ESC"

BEL == "BEL"

Alphabet == {"a", "1", "[", "]", ESC, BEL}

\* vte::Parser::advance(&mut performer, byte) for the bytes of Alphabet: the
\* next parser state and the character handed to Perform::print, if any.
\*   ground  plain text          escape  after ESC
\*   csi     after ESC [         osc     after ESC ], up to BEL or ESC
Advance(state, byte) ==
    CASE byte = ESC -> [state |-> "escape", print |-> None]
      [] byte = BEL ->
           [state |-> IF state = "osc" THEN "ground" ELSE state, print |-> None]
      [] state = "ground" -> [state |-> "ground", print |-> Some(byte)]
      [] state = "escape" ->
           [state |-> CASE byte = "[" -> "csi"
                        [] byte = "]" -> "osc"
                        [] OTHER -> "ground",
            print |-> None]
      [] state = "csi" ->
           \* 0x30..0x3f are parameters, 0x40..0x7e end the sequence
           [state |-> IF byte = "1" THEN "csi" ELSE "ground", print |-> None]
      [] state = "osc" -> [state |-> "osc", print |-> None]

\* c as u8: the code point modulo 256
AsU8(c) ==
    CASE c = WideEsc -> ESC
      [] c = WideA -> "a"
      [] OTHER -> c

\* printable_chars() / printable_char_indices(): the iterator over the
\* input, with Parser::new() and Performer::new()
IterNew == [pos |-> 1, parser |-> "ground", c |-> None, yielded |-> <<>>,
            done |-> FALSE]

\* the byte offset CharIndices pairs with the character at position pos
RECURSIVE ByteOffset(_, _)
ByteOffset(input, pos) ==
    IF pos <= 1 THEN 0
    ELSE ByteOffset(input, pos - 1) + LenUtf8(input[pos - 1])

\* PrintableChars::next with performer.c read but not taken
RECURSIVE printable_chars_next_untaken(_, _)
printable_chars_next_untaken(input, it) ==
    IF it.pos > Len(input) THEN [it EXCEPT !.done = TRUE]
    ELSE LET a == Advance(it.parser, AsU8(input[it.pos]))
             it1 == [it EXCEPT !.pos = @ + 1, !.parser = a.state,
                               !.c = IF a.print # None THEN a.print ELSE @]
         IN IF it1.c # None
            THEN [it1 EXCEPT !.yielded = Append(@, Unwrap(it1.c))]
            ELSE printable_chars_next_untaken(input, it1)

\* PrintableChars::next(): Some(pc) added to yielded, or done for None
RECURSIVE printable_chars_next(_, _)
printable_chars_next(input, it) ==
    IF it.pos > Len(input) THEN [it EXCEPT !.done = TRUE]
    ELSE LET \* self.parser.advance(&mut self.performer, c as u8)
             a == Advance(it.parser, AsU8(input[it.pos]))
             it1 == [it EXCEPT !.pos = @ + 1, !.parser = a.state,
                               !.c = IF a.print # None THEN a.print ELSE @]
         IN \* if let Some(pc) = self.performer.c.take() { return Some(pc) }
            IF it1.c # None
            THEN [it1 EXCEPT !.c = None, !.yielded = Append(@, Unwrap(it1.c))]
            ELSE printable_chars_next(input, it1)

\* PrintableCharIndices::next(): Some((offset, c)), or done for None
RECURSIVE printable_char_indices_next(_, _)
printable_char_indices_next(input, it) ==
    IF it.pos > Len(input) THEN [it EXCEPT !.done = TRUE]
    ELSE LET offset == ByteOffset(input, it.pos)
             a == Advance(it.parser, AsU8(input[it.pos]))
             it1 == [it EXCEPT !.pos = @ + 1, !.parser = a.state,
                               !.c = IF a.print # None THEN a.print ELSE @]
         IN IF it1.c # None
            THEN [it1 EXCEPT !.c = None,
                             !.yielded = Append(@, <<offset, Unwrap(it1.c)>>)]
            ELSE printable_char_indices_next(input, it1)

\* ------------------------------------------------------------------------
\* The configuration the builder carries: LuaScriptBuilder, the fields of
\* LuaScript that keep it, and the objects of the interpreter that show it
\* to scripts (blight.screen_dimensions, blight.reader_mode, tts.enabled).
\* ------------------------------------------------------------------------

LuaScriptBuilder(dimensions, reader_mode, tts_enabled) ==
    [dimensions |-> dimensions, reader_mode |-> reader_mode,
     tts_enabled |-> tts_enabled]

\* Blight::new(writer): the reader mode of a new root object
BlightNewReaderMode == FALSE

\* create_default_lua_state(builder, store), the part that reads the builder:
\* Tts::new(builder.tts_enabled); blight.screen_dimensions = builder.dimensions
ConfiguredState(builder) ==
    [screen_dimensions |-> builder.dimensions,
     reader_mode |-> BlightNewReaderMode,
     tts_enabled |-> builder.tts_enabled]

\* LuaScriptBuilder::build(): the fields of LuaScript and its state
build(builder) ==
    [state |-> ConfiguredState(builder),
     tts_enabled |-> builder.tts_enabled,
     reader_mode |-> builder.reader_mode]

\* reset(dimensions): a builder from the fields of LuaScript, a new state
reset_config(script, dimensions) ==
    [script EXCEPT !.state = ConfiguredState(
        LuaScriptBuilder(dimensions, script.reader_mode, script.tts_enabled))]

\* set_reader_mode(reader_mode)
set_reader_mode(script, reader_mode) ==
    [script EXCEPT !.reader_mode = reader_mode,
                   !.state.reader_mode = reader_mode]

\* set_tts_enabled(tts_enabled)
set_tts_enabled(script, tts_enabled) ==
    [script EXCEPT !.tts_enabled = tts_enabled,
                   !.state.tts_enabled = tts_enabled]

\* set_dimensions(dim), the root object's part
set_dimensions(script, dim) ==
    [script EXCEPT !.state.screen_dimensions = dim]

\* ------------------------------------------------------------------------
\* open_tcp_stream (src/net/util.rs).  What the operating system answers is
\* an input: resolved is None when to_socket_addrs fails, else the sequence
\* of the resolved addresses, each with the outcome of Socket::new and of
\* connect_timeout for it.
\* ------------------------------------------------------------------------

ConnectOutcomes == {"connected", "refused", "timed_out"}

Addr(socket_ok, connect) == [socket_ok |-> socket_ok, connect |-> connect]

\* addr_iter.find_map(|addr| ..): the first address whose closure is Some
RECURSIVE FindMap(_, _)
FindMap(addrs, i) ==
    IF i > Len(addrs) THEN None
    \* Socket::new(..).ok()?
    ELSE IF ~addrs[i].socket_ok THEN FindMap(addrs, i + 1)
    \* socket.connect_timeout(..).ok(); set_tcp_keepalive(..).ok(); Some(socket)
    ELSE Some([addr |-> i, connected |-> addrs[i].connect = "connected"])

\* open_tcp_stream(host, port): Ok(stream) or an error
open_tcp_stream(resolved) ==
    \* (host, port).to_socket_addrs()?
    IF resolved = None THEN [ok |-> FALSE, stream |-> None]
    ELSE LET stream == FindMap(Unwrap(resolved), 1)
         IN \* if let Some(stream) = stream { Ok(..) } else { bail!(..) }
            [ok |-> stream # None, stream |-> stream]

\* ------------------------------------------------------------------------
\* The state machine
\* ------------------------------------------------------------------------

Done(op, arg, ret, invoked, fired, err, seen) ==
    [op |-> op, arg |-> arg, ret |-> ret, invoked |-> invoked,
     fired |-> fired, err |-> err, seen |-> seen]

NotConnected == [id |-> None, rebuilt |-> FALSE, stale |-> {}]

Ids(entries) == {entries[i].id : i \in DOMAIN entries}

\* LuaScriptBuilder::build()
Init ==
    /\ lua = create_default_lua_state(None, 0, FALSE, None)
    /\ conn = NotConnected
    /\ sent = <<>>
    /\ last = Done("build", Nil, Nil, <<>>, {}, FALSE, None)

Eval(script) ==
    /\ ScriptAllowed(lua, script)
    /\ LET r == eval(lua, script)
       IN /\ lua' = r.st
          /\ sent' = r.events
          /\ last' = Done("eval", script, r.ret, <<>>,
                          (Ids(lua.triggers) \ Ids(r.st.triggers))
                            \cup (Ids(lua.aliases) \ Ids(r.st.aliases)),
                          r.err, None)
    /\ UNCHANGED conn

OnMudOutput(line) ==
    /\ LET r == on_mud_output(lua, line)
       IN /\ lua' = r.st
          /\ sent' = r.events
          /\ last' = Done("on_mud_output", line, r.line, r.invoked, r.fired,
                          r.err, None)
    /\ UNCHANGED conn

OnMudInput(line) ==
    /\ LET r == on_mud_input(lua, line)
       IN /\ lua' = r.st
          /\ sent' = r.events
          /\ last' = Done("on_mud_input", line, r.line, r.invoked, r.fired,
                          r.err, None)
    /\ UNCHANGED conn

OnConnect(id) ==
    /\ LET r == on_connect(lua, id)
       IN /\ lua' = r.st
          /\ sent' = r.events
          /\ last' = Done("on_connect", id, Nil, r.invoked, {}, r.err, r.seen)
    /\ conn' = [conn EXCEPT !.id = Some(id), !.rebuilt = FALSE]

\* the largest id: u16
U16Max == 65535

\* the id the session hands to on_connect for its next connection: one more
\* than the last
NextConnectionId(c) == IF c.id = None THEN 1 ELSE Unwrap(c.id) + 1

\* the session connects and the main loop tells the host
SessionConnect ==
    /\ NextConnectionId(conn) <= U16Max
    /\ NextConnectionId(conn) <= MaxConnects
    /\ OnConnect(NextConnectionId(conn))

OnDisconnect ==
    /\ LET r == on_disconnect(lua)
       IN /\ lua' = r.st
          /\ sent' = r.events
          /\ last' = Done("on_disconnect", Nil, Nil, r.invoked, {}, r.err,
                          r.seen)
    /\ UNCHANGED conn

Reset ==
    /\ lua' = reset(lua)
    /\ sent' = BuildEvents(reset(lua))
    /\ last' = Done("reset",
                    Cardinality(UserListeners(lua)) + Len(lua.triggers)
                      + Len(lua.aliases),
                    Nil, <<>>, {}, FALSE, None)
    /\ conn' = [conn EXCEPT
                  !.rebuilt = TRUE,
                  !.stale = @ \cup (FirstTimerId(lua)..(lua.next_timed_id - 1))]

SetPromptContent(content) ==
    /\ lua' = set_prompt_content(lua, content)
    /\ sent' = <<>>
    /\ last' = Done("set_prompt_content", content, Nil, <<>>, {}, FALSE, None)
    /\ UNCHANGED conn

LoadScript(path) ==
    /\ path \in DOMAIN ScriptFiles => ScriptAllowed(lua, ScriptFiles[path])
    /\ LET r == load_script(lua, path)
       IN /\ lua' = r.st
          /\ sent' = r.events
          /\ last' = Done("load_script", path,
                          IF r.io_err THEN "Err" ELSE "Ok", <<>>, {}, r.err,
                          r.seen)
    /\ UNCHANGED conn

\* the timer ids the main loop may fire or remove
TimerIds == 1..(MaxTimers + 2)

\* the milliseconds the main loop hands to tick (confirm_tick_callback)
TickMillis == 100

RunTimedFunction(id) ==
    /\ LET r == run_timed_function(lua, id)
       IN /\ lua' = r.st
          /\ sent' = r.events
          /\ last' = Done("run_timed_function", id, Nil, r.invoked, {}, r.err,
                          None)
    /\ UNCHANGED conn

RemoveTimedFunction(id) ==
    /\ LET r == remove_timed_function(lua, id)
       IN /\ lua' = r.st
          /\ sent' = r.events
          /\ last' = Done("remove_timed_function", id, Nil, r.invoked, {},
                          r.err, None)
    /\ UNCHANGED conn

Summing(chain) == Len(SelectSeq(chain, LAMBDA cb : cb.act = "sum"))

Tick(millis) ==
    /\ lua.total_millis + millis * Summing(lua.tick_core \o lua.tick_user)
         <= MaxSummed * TickMillis
    /\ LET r == tick(lua, millis)
       IN /\ lua' = r.st
          /\ sent' = r.events
          /\ last' = Done("tick", millis, Nil, r.invoked, {}, r.err, None)
    /\ UNCHANGED conn

CheckBindings(cmd) ==
    /\ LET r == check_bindings(lua, cmd)
       IN /\ lua' = r.st
          /\ sent' = r.events
          /\ last' = Done("check_bindings", cmd, r.response, r.invoked, {},
                          r.err, None)
    /\ UNCHANGED conn

\* a native panic ends the process
Alive == last.op # "panic"

\* what an evaluated call of a library function leaves behind
Called(script, r) ==
    /\ lua' = r.st
    /\ sent' = r.events \o exec_lua(r)
    /\ last' = Done(IF r.panic THEN "panic" ELSE "eval", script, r.ret, <<>>,
                    {}, r.err, None)
    /\ UNCHANGED conn

\* eval of a script calling prompt.set_cursor(offset)
PromptSetCursor(offset) ==
    /\ Alive
    /\ \E r \in prompt_set_cursor(lua, offset) :
         Called([kind |-> "prompt_set_cursor", offset |-> offset], r)

\* eval of a script calling prompt.get_cursor()
PromptGetCursor ==
    /\ Alive
    /\ Called([kind |-> "prompt_get_cursor"], prompt_get_cursor(lua))

\* eval of a script calling spellcheck.init(aff_path, dict_path)
SpellcheckInit(dict) ==
    Called([kind |-> "spellcheck_init", dict |-> dict],
           spellcheck_init(lua, dict))

\* eval of a script calling spellcheck.check(word)
SpellcheckCheck(word) ==
    Called([kind |-> "spellcheck_check", word |-> word],
           spellcheck_check(lua, word))

\* eval of a script calling spellcheck.suggest(word)
SpellcheckSuggest(word) ==
    Called([kind |-> "spellcheck_suggest", word |-> word],
           spellcheck_suggest(lua, word))

\* eval of a script calling prompt_mask.set(data, mask)
PromptMaskSet(data, pairs, writer_open) ==
    /\ Alive
    /\ Called([kind |-> "prompt_mask_set", data |-> data, pairs |-> pairs,
                writer_open |-> writer_open],
              prompt_mask_set_call(lua, data, pairs, writer_open))

TabComplete(input) ==
    /\ LET r == tab_complete(lua, input)
       IN /\ sent' = r.events
          /\ last' = Done("tab_complete", input, r.completions, r.invoked, {},
                          r.err, None)
    /\ UNCHANGED <<lua, conn>>

\* the renderer applies the mask it holds to the prompt buffer it holds
MaskBuffer ==
    /\ last.op = "mask_input"
    /\ last' = Done("mask_buffer", last.arg,
                    mask_buffer(last.arg.mask, last.arg.buf), <<>>, {}, FALSE,
                    None)
    /\ sent' = <<>>
    /\ UNCHANGED <<lua, conn>>

\* the lines the main loop hands to the host
Lines(texts, prompts) ==
    {[LineFrom(t) EXCEPT !.prompt = p, !.bypass_script = b] :
       t \in texts, p \in prompts, b \in BOOLEAN}

\* listener chains and script errors
Next ==
    \/ \E s \in AddListenerScripts(ListenerTables) \cup {RaiseScript} : Eval(s)
    \/ \E l \in Lines({"test"}, {FALSE}) : OnMudOutput(l)
    \/ \E l \in Lines({"test"}, {FALSE}) : OnMudInput(l)
    \/ OnConnect(12)
    \/ OnDisconnect

Spec == Init /\ [][Next]_vars

\* the ids the main loop hands to on_connect (those of test_on_connect_test)
ConnIds == {12, 13}

\* the connection state across connects, disconnects and rebuilds
NextConnect ==
    \/ \E s \in AddListenerScripts(ListenerTables \ LineTables) : Eval(s)
    \/ \E id \in ConnIds : OnConnect(id)
    \/ OnDisconnect
    \/ Reset

SpecConnect == Init /\ [][NextConnect]_vars

\* the ids of a session across reconnects and rebuilds
NextSession ==
    \/ \E s \in AddListenerScripts(ListenerTables \ LineTables) : Eval(s)
    \/ SessionConnect
    \/ OnDisconnect
    \/ Reset

SpecSession == Init /\ [][NextSession]_vars

\* rebuilding the interpreter
NextReset ==
    \/ \E s \in AddListenerScripts({"MUD_OUTPUT_LISTENER_TABLE",
                                    "ON_CONNECTION_CALLBACK_TABLE"})
                \cup StoreScripts
                \cup {TriggerAddScript("^test$", NoOpts, "ok"),
                      AliasAddScript("^test$", "ok")} : Eval(s)
    \/ \E l \in Lines({"test"}, {FALSE}) : OnMudOutput(l)
    \/ \E l \in Lines({"test"}, {FALSE}) : OnMudInput(l)
    \/ OnConnect(12)
    \/ Reset

SpecReset == Init /\ [][NextReset]_vars

\* the trigger engine on the output path
NextTrigger ==
    \/ \E s \in TriggerScripts : Eval(s)
    \/ \E l \in Lines(Texts, BOOLEAN) : OnMudOutput(l)

SpecTrigger == Init /\ [][NextTrigger]_vars

\* the alias engine on the input path
NextAlias ==
    \/ \E s \in AliasScripts : Eval(s)
    \/ \E l \in Lines(Texts, {FALSE}) : OnMudInput(l)

SpecAlias == Init /\ [][NextAlias]_vars


\* the prompt and its mask
NextPrompt ==
    \/ \E s \in PromptScripts : Eval(s)
    \/ \E c \in Prompts : SetPromptContent(c)

SpecPrompt == Init /\ [][NextPrompt]_vars

\* the spellchecker as scripts can call it
NextSpell ==
    \/ \E dict \in Dictionaries : SpellcheckInit(dict)
    \/ \E word \in SpellWords : SpellcheckCheck(word)
    \/ \E word \in SpellWords : SpellcheckSuggest(word)
    \/ \E s \in StoreScripts : Eval(s)
    \/ Reset

SpecSpell == Init /\ [][NextSpell]_vars

\* the prompt library as scripts can call it
NextPromptApi ==
    \/ \E c \in {"", "hp>"} : Alive /\ SetPromptContent(c)
    \/ \E offset \in CursorArgs : PromptSetCursor(offset)
    \/ PromptGetCursor
    \/ \E data \in {"", "hp>", InvalidUtf8}, pairs \in MaskPairs,
          writer_open \in BOOLEAN : PromptMaskSet(data, pairs, writer_open)

SpecPromptApi == Init /\ [][NextPromptApi]_vars

\* the interpreter of a build whose built-in modules may register timers
InitTimer ==
    /\ \E core_timers \in BOOLEAN :
         lua = create_default_lua_state(None, 0, core_timers, None)
    /\ conn = NotConnected
    /\ sent = <<>>
    /\ last = Done("build", Nil, Nil, <<>>, {}, FALSE, None)

\* build(): the interpreter of a build in which a built-in script may raise
InitBuild ==
    /\ \E core_timers \in BOOLEAN,
          failing \in {None} \cup {Some(m) : m \in FailingModules} :
         lua = create_default_lua_state(None, 0, core_timers, failing)
    /\ conn = NotConnected
    /\ sent = BuildEvents(lua)
    /\ last = Done("build", Nil, Nil, <<>>, {}, FALSE, None)

\* what scripts register after build() or reset() has returned
BuildScripts ==
    {[kind |-> "timer_add", act |-> "pass"], [kind |-> "on_tick", act |-> "pass"],
     [kind |-> "add_listener", table |-> "MUD_OUTPUT_LISTENER_TABLE",
      act |-> "pass"]}

NextBuild ==
    \/ \E s \in BuildScripts : Eval(s)
    \/ Reset

SpecBuild == InitBuild /\ [][NextBuild]_vars

\* timed callbacks
NextTimer ==
    \/ \E s \in TimerScripts : Eval(s)
    \/ \E id \in TimerIds : RunTimedFunction(id)
    \/ \E id \in TimerIds : RemoveTimedFunction(id)
    \/ Reset

SpecTimer == InitTimer /\ [][NextTimer]_vars

\* tick callbacks
NextTick ==
    \/ \E s \in TickScripts : Eval(s)
    \/ Tick(TickMillis)
    \/ Reset

SpecTick == InitTimer /\ [][NextTick]_vars

PathScripts ==
    {[kind |-> "package_path_append", dir |-> d] : d \in {<<"lib">>, <<"~", "lua">>}}

\* loading script files
NextLoad ==
    \/ \E s \in PathScripts : Eval(s)
    \/ \E path \in LoadPaths : LoadScript(path)
    \/ OnConnect(12)

SpecLoad == Init /\ [][NextLoad]_vars

\* tab completion
NextComplete ==
    \/ \E s \in CompleteScripts : Eval(s)
    \/ \E i \in Inputs : TabComplete(i)

SpecComplete == Init /\ [][NextComplete]_vars

\* key bindings
NextBind ==
    \/ \E s \in BindScripts : Eval(s)
    \/ \E cmd \in BindCommands : CheckBindings(cmd)
    \/ Reset

SpecBind == Init /\ [][NextBind]_vars

\* check_latest_version: the worker thread has been spawned for a running
\* version and a fetcher; last.ret is the worker's position
InitVersion ==
    /\ lua = create_default_lua_state(None, 0, FALSE, None)
    /\ conn = NotConnected
    /\ sent = <<>>
    /\ \E current \in Tags, fetched \in Fetched :
         last = Done("check_version", [current |-> current, fetched |-> fetched],
                     "running", <<>>, {}, FALSE, None)

\* writer.send(Event::Info(..)): the next event of run goes to the bus
VersionSend ==
    /\ last.op = "check_version"
    /\ last.ret = "running"
    /\ LET events == run(last.arg.current, last.arg.fetched)
       IN /\ Len(sent) < Len(events)
          /\ sent' = Append(sent, events[Len(sent) + 1])
    /\ UNCHANGED <<lua, conn, last>>

\* run returns and the thread ends
VersionReturn ==
    /\ last.op = "check_version"
    /\ last.ret = "running"
    /\ Len(sent) = Len(run(last.arg.current, last.arg.fetched))
    /\ last' = [last EXCEPT !.ret = "returned"]
    /\ UNCHANGED <<lua, conn, sent>>

NextVersion ==
    \/ VersionSend
    \/ VersionReturn

SpecVersion == InitVersion /\ [][NextVersion]_vars

\* server lines through a chain of output listeners that change the line
NextOutput ==
    \/ \E s \in OutputScripts : Eval(s)
    \/ \E l \in Lines({"test"}, BOOLEAN) : OnMudOutput(l)
    \/ Reset

SpecOutput == Init /\ [][NextOutput]_vars

\* lines of one text with every combination of the four flags
FlaggedLines ==
    {[content |-> "test", gag |-> g, matched |-> m, bypass_script |-> b,
      prompt |-> p] : g \in BOOLEAN, m \in BOOLEAN, b \in BOOLEAN, p \in BOOLEAN}

\* flagged lines through both listener chains
NextBypass ==
    \/ \E s \in OutputScripts \cup AddListenerScripts({"MUD_INPUT_LISTENER_TABLE"}) :
         Eval(s)
    \/ \E l \in FlaggedLines : OnMudOutput(l)
    \/ \E l \in FlaggedLines : OnMudInput(l)

SpecBypass == Init /\ [][NextBypass]_vars

\* the prompt and the connection across a reset, the session staying
\* connected
NextAfterReset ==
    \/ \E s \in PromptScripts : Eval(s)
    \/ \E c \in Prompts : SetPromptContent(c)
    \/ SessionConnect
    \/ Reset

SpecAfterReset == Init /\ [][NextAfterReset]_vars

\* scripts setting and masking the prompt while the main loop reports what
\* the user typed
NextPromptRace ==
    \/ \E s \in PromptRaceScripts : Eval(s)
    \/ \E s \in PromptScripts : s.kind = "prompt_mask_set" /\ Eval(s)
    \/ \E c \in Prompts : SetPromptContent(c)

SpecPromptRace == Init /\ [][NextPromptRace]_vars

\* tags v<major>.<minor>.<patch> with every component a single digit
SingleDigitTags ==
    {<<"v", a, ".", b, ".", c>> : a \in {"0", "1", "9"}, b \in {"1", "9"},
                                  c \in {"1", "9"}}

\* the worker with the Fetcher over a repository of up to MaxTags such tags
InitSemver ==
    /\ lua = create_default_lua_state(None, 0, FALSE, None)
    /\ conn = NotConnected
    /\ sent = <<>>
    /\ \E current \in SingleDigitTags,
          repo \in {ts \in SUBSET SingleDigitTags : Cardinality(ts) <= MaxTags} :
         last = Done("check_version",
                     [current |-> current, fetched |-> Fetcher_fetch(Some(repo))],
                     "running", <<>>, {}, FALSE, None)

SpecSemver == InitSemver /\ [][NextVersion]_vars

\* terminal sizes: the builder's default, the one of the tests, another
Dimensions == {<<0, 0>>, <<80, 80>>, <<70, 70>>}

\* last.ret is the LuaScript; last.seen keeps what was asked for: the
\* reader mode and tts flag given to the builder or last set
InitConfig ==
    /\ lua = create_default_lua_state(None, 0, FALSE, None)
    /\ conn = NotConnected
    /\ sent = <<>>
    /\ \E dims \in Dimensions, r \in BOOLEAN, t \in BOOLEAN :
         last = Done("build", dims,
                     build(LuaScriptBuilder(dims, r, t)), <<>>, {}, FALSE,
                     Some([reader_mode |-> r, tts_enabled |-> t]))

ResetDimensions(dims) ==
    /\ lua' = reset(lua)
    /\ sent' = BuildEvents(reset(lua))
    /\ conn' = [conn EXCEPT
                  !.rebuilt = TRUE,
                  !.stale = @ \cup (FirstTimerId(lua)..(lua.next_timed_id - 1))]
    /\ last' = [last EXCEPT !.op = "reset", !.arg = dims,
                            !.ret = reset_config(last.ret, dims)]

SetReaderMode(r) ==
    /\ last' = [last EXCEPT !.op = "set_reader_mode", !.arg = r,
                            !.ret = set_reader_mode(last.ret, r),
                            !.seen = Some([Unwrap(@) EXCEPT !.reader_mode = r])]
    /\ UNCHANGED <<lua, conn, sent>>

SetTtsEnabled(t) ==
    /\ last' = [last EXCEPT !.op = "set_tts_enabled", !.arg = t,
                            !.ret = set_tts_enabled(last.ret, t),
                            !.seen = Some([Unwrap(@) EXCEPT !.tts_enabled = t])]
    /\ UNCHANGED <<lua, conn, sent>>

SetDimensions(dim) ==
    /\ last' = [last EXCEPT !.op = "set_dimensions", !.arg = dim,
                            !.ret = set_dimensions(last.ret, dim)]
    /\ UNCHANGED <<lua, conn, sent>>

NextConfig ==
    \/ \E dims \in Dimensions : ResetDimensions(dims)
    \/ \E r \in BOOLEAN : SetReaderMode(r)
    \/ \E t \in BOOLEAN : SetTtsEnabled(t)
    \/ \E dim \in Dimensions : SetDimensions(dim)

SpecConfig == InitConfig /\ [][NextConfig]_vars

\* what resolution and the sockets can answer for up to MaxAddrs addresses
Resolutions ==
    {None} \cup
    {Some(a) : a \in UNION {[1..n -> {Addr(s, c) : s \in BOOLEAN,
                                                  c \in ConnectOutcomes}] :
                              n \in 0..MaxAddrs}}

InitTcp ==
    /\ lua = create_default_lua_state(None, 0, FALSE, None)
    /\ conn = NotConnected
    /\ sent = <<>>
    /\ \E resolved \in Resolutions :
         last = Done("tcp_input", resolved, Nil, <<>>, {}, FALSE, None)

OpenTcpStream ==
    /\ last.op = "tcp_input"
    /\ last' = Done("open_tcp_stream", last.arg, open_tcp_stream(last.arg),
                    <<>>, {}, FALSE, None)
    /\ UNCHANGED <<lua, conn, sent>>

NextTcp == OpenTcpStream

SpecTcp == InitTcp /\ [][NextTcp]_vars

\* the inputs of the iterators: every string over Alphabet of up to MaxInput
\* characters, a coloured text and a window title
IterInputs ==
    UNION {[1..n -> Alphabet] : n \in 0..MaxInput}
    \cup {<<ESC, "[", "1", "a", "a", "1">>, <<ESC, "]", "a", BEL, "a", ESC>>}

\* inputs with characters above U+007F
WideAlphabet == {"a", "[", ESC, WideEsc, WideA}

WideInputs == UNION {[1..n -> WideAlphabet] : n \in 0..MaxInput}

InitWide ==
    /\ lua = create_default_lua_state(None, 0, FALSE, None)
    /\ conn = NotConnected
    /\ sent = <<>>
    /\ \E op \in {"printable_chars", "printable_char_indices"},
          input \in WideInputs :
         last = Done(op, input, IterNew, <<>>, {}, FALSE, None)

\* an iterator of either flavour has been made for an input
InitIter ==
    /\ lua = create_default_lua_state(None, 0, FALSE, None)
    /\ conn = NotConnected
    /\ sent = <<>>
    /\ \E op \in {"printable_chars", "printable_char_indices"},
          input \in IterInputs :
         last = Done(op, input, IterNew, <<>>, {}, FALSE, None)

PrintableCharsNext ==
    /\ last.op = "printable_chars"
    /\ ~last.ret.done
    /\ last' = [last EXCEPT !.ret = printable_chars_next(last.arg, @)]
    /\ UNCHANGED <<lua, conn, sent>>

PrintableCharIndicesNext ==
    /\ last.op = "printable_char_indices"
    /\ ~last.ret.done
    /\ last' = [last EXCEPT !.ret = printable_char_indices_next(last.arg, @)]
    /\ UNCHANGED <<lua, conn, sent>>

NextIter ==
    \/ PrintableCharsNext
    \/ PrintableCharIndicesNext

SpecIter == InitIter /\ [][NextIter]_vars

SpecWide == InitWide /\ [][NextIter]_vars

\* prompt buffers of up to MaxBuf characters, and the example of the
\* specification: "ABCDE" under {3: "xx", 5: "yy"}
Buffers == UNION {[1..n -> {"A", "B"}] : n \in 0..MaxBuf}

ExampleBuf == <<"A", "B", "C", "D", "E">>

ExampleMask == (3 :> <<"x", "x">>) @@ (5 :> <<"y", "y">>)

MaskInputs ==
    {<<m, b>> : m \in MaskTables(0..(MaxBuf + 1)), b \in Buffers}
    \cup {<<ExampleMask, ExampleBuf>>}

\* the calls of prompt_mask.set with key 0, a key inside every buffer and a
\* key beyond the end of every buffer
RenderScripts ==
    {[kind |-> "prompt_mask_set", data |-> p, mask |-> m] :
       p \in {"", "hp>"}, m \in MaskTables({0, 1, MaxBuf + 2})}

\* the renderer takes the SetPromptMask event off the bus and applies its
\* mask to the prompt buffer it holds
RenderMask(buf) ==
    /\ Len(sent) = 1
    /\ sent[1].type = "SetPromptMask"
    /\ last' = Done("mask_buffer", [mask |-> sent[1].mask, buf |-> buf],
                    mask_buffer(sent[1].mask, buf), <<>>, {}, FALSE, None)
    /\ sent' = <<>>
    /\ UNCHANGED <<lua, conn>>

\* from prompt_mask.set to the masked prompt
NextRender ==
    \/ \E s \in RenderScripts : Eval(s)
    \/ \E c \in {"", "hp>"} : SetPromptContent(c)
    \/ \E buf \in Buffers : RenderMask(buf)

SpecRender == Init /\ [][NextRender]_vars

InitMask ==
    /\ lua = create_default_lua_state(None, 0, FALSE, None)
    /\ conn = NotConnected
    /\ sent = <<>>
    /\ \E in \in MaskInputs :
         last = Done("mask_input", [mask |-> in[1], buf |-> in[2]], Nil, <<>>,
                     {}, FALSE, None)

NextMask == MaskBuffer

SpecMask == InitMask /\ [][NextMask]_vars


\* ------------------------------------------------------------------------
\* Properties
\* ------------------------------------------------------------------------

Infos(events) == {i \in DOMAIN events : events[i].type = "Info"}

\* the listeners a walk of chain calls: all of them, or those up to and
\* including the first one that raises
Walked(chain) ==
    IF FirstRaise(chain) = 0 THEN chain ELSE SubSeq(chain, 1, FirstRaise(chain))

\* C1: on_mud_input on a line without bypass_script calls every input
\* listener in order unless one raises; when one raises, no later listener
\* is called and the line comes back unchanged but for matched = true.
C1_InputWalkStopsAtError ==
    (last.op = "on_mud_input" /\ ~last.arg.bypass_script) =>
      LET chain == lua.tables["MUD_INPUT_LISTENER_TABLE"]
          k == FirstRaise(chain)
      IN IF k = 0
         THEN last.invoked = chain /\ ~last.err
         ELSE /\ last.invoked = SubSeq(chain, 1, k)
              /\ last.err
              /\ last.ret = [last.arg EXCEPT !.matched = TRUE]

\* a listener raised and a listener after it was not called
C1_Witness ==
    /\ last.op = "on_mud_input"
    /\ last.err
    /\ Len(last.invoked) < Len(lua.tables["MUD_INPUT_LISTENER_TABLE"])
    /\ last.invoked[Len(last.invoked)].act = "raise"
    /\ last.ret.matched

HostOps == {"eval", "on_mud_output", "on_mud_input", "on_connect",
            "on_disconnect"}

TableOf(op) ==
    CASE op = "on_mud_output" -> "MUD_OUTPUT_LISTENER_TABLE"
      [] op = "on_mud_input" -> "MUD_INPUT_LISTENER_TABLE"
      [] op = "on_connect" -> "ON_CONNECTION_CALLBACK_TABLE"
      [] op = "on_disconnect" -> "ON_DISCONNECT_CALLBACK_TABLE"

\* the operation went to the listeners registered for it
Dispatched ==
    (last.op \in HostOps \ {"eval"}) =>
      IF last.op \in {"on_mud_output", "on_mud_input"} /\ last.arg.bypass_script
      THEN last.invoked = <<>>
      ELSE last.invoked = Walked(lua.tables[TableOf(last.op)])

C3_PromptMaskSetGuard ==
    [][(last'.op = "eval" /\ last'.arg.kind = "prompt_mask_set") =>
         LET same == last'.arg.data = lua.registry.PROMPT_CONTENT
         IN /\ last'.ret = (IF same THEN "true" ELSE "false")
            /\ same => sent' = <<[type |-> "SetPromptMask",
                                  mask |-> last'.arg.mask]>>
            /\ ~same => (sent' = <<>> /\ lua' = lua)]_vars

\* a mask was accepted for a prompt that a script had set
C3_Witness ==
    /\ last.op = "eval"
    /\ last.arg.kind = "prompt_mask_set"
    /\ last.ret = "true"
    /\ last.arg.data = "hp>"
    /\ DOMAIN last.arg.mask = {1, 3}
    /\ Len(sent) = 1


\* what the mask is meant to produce: the value of key k immediately before
\* the character at position k of buf, the value of key Len(buf) + 1 last
RECURSIVE InsertedFrom(_, _, _)
InsertedFrom(mask, buf, k) ==
    IF k > Len(buf) + 1 THEN <<>>
    ELSE (IF k \in DOMAIN mask THEN mask[k] ELSE <<>>)
         \o (IF k <= Len(buf) THEN <<buf[k]>> ELSE <<>>)
         \o InsertedFrom(mask, buf, k + 1)

\* C4: for every buffer and every mask whose keys lie in 1..len(buf)+1,
\* mask_buffer returns buf with each value inserted once, in key order,
\* immediately before the character that was at position key of buf.
C4_MaskInsertsBeforeOriginalPositions ==
    (last.op = "mask_buffer"
       /\ DOMAIN last.arg.mask \subseteq 1..(Len(last.arg.buf) + 1)) =>
      /\ ~last.ret.panic
      /\ last.ret.out = InsertedFrom(last.arg.mask, last.arg.buf, 1)

\* the same for masks whose values are ASCII only
C4_AsciiMasks ==
    (last.op = "mask_buffer"
       /\ DOMAIN last.arg.mask \subseteq 1..(Len(last.arg.buf) + 1)
       /\ \A k \in DOMAIN last.arg.mask :
            StrLen(last.arg.mask[k]) = Len(last.arg.mask[k])) =>
      /\ ~last.ret.panic
      /\ last.ret.out = InsertedFrom(last.arg.mask, last.arg.buf, 1)

\* the example of the specification: "ABCDE", {3: "xx", 5: "yy"}
C4_Example ==
    (last.op = "mask_buffer" /\ last.arg.buf = ExampleBuf
       /\ last.arg.mask = ExampleMask) =>
      last.ret.out = <<"A", "B", "x", "x", "C", "D", "y", "y", "E">>


\* after on_connect the registry holds the connection, whatever the
\* listeners did, and the first listener already found it there
ConnectRecorded ==
    (last.op = "on_connect") =>
      /\ lua.registry.IS_CONNECTED = Some(TRUE)
      /\ lua.registry.CONNECTION_ID = Some(last.arg)
      /\ last.seen # None =>
           /\ Unwrap(last.seen).IS_CONNECTED = Some(TRUE)
           /\ Unwrap(last.seen).CONNECTION_ID = Some(last.arg)

\* C5 as stated: after on_connect(host, port, id) IS_CONNECTED = true and
\* CONNECTION_ID = id, written before the first listener runs and kept when
\* a listener raises; after on_disconnect IS_CONNECTED = false and
\* CONNECTION_ID is still the id of the last on_connect.
C5_ConnectionRegistry ==
    /\ ConnectRecorded
    /\ (last.op = "on_disconnect") =>
         /\ lua.registry.IS_CONNECTED = Some(FALSE)
         /\ conn.id # None => lua.registry.CONNECTION_ID = conn.id

\* C5 amended: after on_disconnect CONNECTION_ID is still the id of the
\* last on_connect unless the interpreter was rebuilt since that
\* on_connect; the rebuilt registry holds no CONNECTION_ID.
C5_ConnectionRegistryUnlessRebuilt ==
    /\ ConnectRecorded
    /\ (last.op = "on_disconnect") =>
         /\ lua.registry.IS_CONNECTED = Some(FALSE)
         /\ lua.registry.CONNECTION_ID =
              (IF conn.rebuilt THEN None ELSE conn.id)

\* a disconnect listener raised after a connect; the id is still there
C5_Witness ==
    /\ last.op = "on_disconnect"
    /\ last.err
    /\ conn.id = Some(13)
    /\ ~conn.rebuilt
    /\ lua.registry.CONNECTION_ID = Some(13)
    /\ lua.registry.IS_CONNECTED = Some(FALSE)

Applying(triggers, line) ==
    {triggers[i].id : i \in {j \in DOMAIN triggers :
                               TriggerApplies(triggers[j], line)}}

Counted(triggers) == {i \in DOMAIN triggers : triggers[i].count # None}

\* C7 as stated: a line on which a (counted) trigger fires ends with
\* matched = true, a line on which none fires ends with matched = false, and
\* a counted trigger is in the table only while it has counts left.
C7_CountedTriggerMatches ==
    /\ \A i \in Counted(lua.triggers) : Unwrap(lua.triggers[i].count) >= 1
    /\ (last.op = "on_mud_output") => (last.ret.matched <=> last.fired # {})

\* C7 amended: a trigger added with count = N fires on exactly the first N
\* lines that match it, each match using up one count whatever the callback
\* does, and is removed with the Nth; a line on which a trigger fires ends
\* with matched = true unless a trigger callback raises during that call,
\* and then the line comes back with matched = false; a line on which no
\* trigger fires ends with matched = false.
C7_CountedTriggerUnlessRaised ==
    /\ [](\A i \in Counted(lua.triggers) : Unwrap(lua.triggers[i].count) >= 1)
    /\ [](last.op = "on_mud_output" =>
            (last.ret.matched <=> (last.fired # {} /\ ~last.err)))
    /\ [][(last'.op = "on_mud_output" /\ ~last'.arg.bypass_script) =>
            /\ last'.fired \subseteq Applying(lua.triggers, last'.arg)
            /\ ~last'.err => last'.fired = Applying(lua.triggers, last'.arg)
            /\ \A i \in DOMAIN lua.triggers :
                 LET t == lua.triggers[i]
                     left == {j \in DOMAIN lua'.triggers :
                                lua'.triggers[j].id = t.id}
                 IN IF t.id \notin last'.fired \/ t.count = None
                    THEN \E j \in left : lua'.triggers[j] = t
                    ELSE IF Unwrap(t.count) = 1
                    THEN left = {}
                    ELSE \E j \in left :
                           lua'.triggers[j] =
                             [t EXCEPT !.count = Some(Unwrap(t.count) - 1)]]_vars

\* a counted trigger fired for the last time: the line is matched and the
\* trigger is gone
C7_Witness ==
    /\ last.op = "on_mud_output"
    /\ last.ret.matched
    /\ last.fired = {1}
    /\ lua.next_trigger_id > 1
    /\ 1 \notin Ids(lua.triggers)

\* C8: trigger.remove(id) takes exactly the trigger of that id out of the
\* table; a line becomes matched only through a trigger that is in the table
\* and applies to it, so a line that only the removed trigger matched stays
\* unmatched, and every trigger still in the table that applies fires.
C8_RemovedTriggerNeverMatches ==
    /\ [][(last'.op = "eval" /\ last'.arg.kind = "trigger_remove") =>
            lua'.triggers =
              SelectSeq(lua.triggers, LAMBDA t : t.id # last'.arg.id)]_vars
    /\ [][last'.op = "on_mud_output" =>
            /\ last'.ret.matched =>
                 /\ ~last'.arg.bypass_script
                 /\ Applying(lua.triggers, last'.arg) # {}
            /\ (~last'.arg.bypass_script /\ ~last'.err) =>
                 /\ last'.fired = Applying(lua.triggers, last'.arg)
                 /\ last'.ret.matched <=> last'.fired # {}]_vars

\* trigger.remove took a trigger out and left another one in
C8_Witness ==
    /\ last.op = "eval"
    /\ last.arg.kind = "trigger_remove"
    /\ last.fired = {last.arg.id}
    /\ lua.triggers # <<>>

\* C9: a trigger fires only on lines of its own kind: prompt triggers on
\* prompt lines, the others on non-prompt lines; a matched line has a
\* trigger of its own kind that matches its text.
C9_PromptGating ==
    [][last'.op = "on_mud_output" =>
         /\ \A i \in DOMAIN lua.triggers :
              lua.triggers[i].id \in last'.fired =>
                lua.triggers[i].prompt = last'.arg.prompt
         /\ last'.ret.matched =>
              \E i \in DOMAIN lua.triggers :
                /\ lua.triggers[i].prompt = last'.arg.prompt
                /\ lua.triggers[i].enabled
                /\ Match(lua.triggers[i].regex, last'.arg.content)
         /\ last'.ret.prompt = last'.arg.prompt]_vars

\* a prompt line was matched by the prompt trigger while a trigger of the
\* other kind with a matching pattern stayed silent
C9_Witness ==
    /\ last.op = "on_mud_output"
    /\ last.arg.prompt
    /\ last.ret.matched
    /\ \E i \in DOMAIN lua.triggers :
         /\ ~lua.triggers[i].prompt
         /\ lua.triggers[i].enabled
         /\ Match(lua.triggers[i].regex, last.arg.content)
         /\ lua.triggers[i].id \notin last.fired

AliasesApplying(aliases, line) ==
    {aliases[i].id : i \in {j \in DOMAIN aliases :
                              AliasApplies(aliases[j], line)}}

\* C10: an input line ends on_mud_input with matched = true exactly when an
\* enabled alias of the table matches it; alias.remove(id) takes exactly the
\* alias of that id out of the table.
C10_AliasMarksMatched ==
    /\ [][(last'.op = "on_mud_input" /\ ~last'.arg.bypass_script) =>
            (last'.ret.matched <=>
               AliasesApplying(lua.aliases, last'.arg) # {})]_vars
    /\ [][(last'.op = "eval" /\ last'.arg.kind = "alias_remove") =>
            lua'.aliases =
              SelectSeq(lua.aliases, LAMBDA a : a.id # last'.arg.id)]_vars

\* every alias that was added has been removed again, and the line they
\* matched is no longer matched
C10_Witness ==
    /\ last.op = "on_mud_input"
    /\ last.arg.content = "test"
    /\ ~last.arg.bypass_script
    /\ ~last.ret.matched
    /\ lua.next_alias_id > 1
    /\ lua.aliases = <<>>


\* what the completion callbacks of the table return for the input
Results(table, input) ==
    [i \in DOMAIN table |-> CompleterReturns(table[i].act, input)]

\* the callbacks whose second returned value is a boolean
Lockers(results) ==
    {i \in DOMAIN results :
       Len(results[i]) >= 2 /\ results[i][2].t = "boolean"}

\* the strings of the tables returned as first value
Returned_strings(results) ==
    UNION {Range(results[i][1].tbl) :
             i \in {j \in DOMAIN results :
                      results[j] # <<>> /\ results[j][1].t = "table"}}

\* C11: within one tab_complete call in which no callback raises, locked is
\* the boolean that the last callback (in insertion order) returning one as
\* its second value returned, and false when none did; when every callback
\* returns a boolean alone, the result has neither entries nor a lock.
C11_LockIsLastWrite ==
    (last.op = "tab_complete" /\ ~last.err) =>
      LET results == Results(lua.completion, last.arg)
          lockers == Lockers(results)
      IN /\ last.ret.locked =
              (IF lockers = {} THEN FALSE
               ELSE LET k == CHOOSE i \in lockers : \A j \in lockers : j <= i
                    IN results[k][2].bool)
         /\ (\A i \in DOMAIN results :
               Len(results[i]) = 1 /\ results[i][1].t = "boolean")
              => last.ret = CompletionsDefault

\* a callback that locked was followed by one returning nil and false: the
\* entries of the first stand, the lock is the one written last
C11_Witness ==
    /\ last.op = "tab_complete"
    /\ ~last.err
    /\ Len(lua.completion) = 2
    /\ lua.completion[1].act = "lock"
    /\ lua.completion[2].act = "nil_unlock"
    /\ last.arg = "bat"
    /\ ~last.ret.locked
    /\ last.ret.entries = <<"batman">>

\* the single completion callback of the specification's example
OnlyBatLocks ==
    /\ Len(lua.completion) = 1
    /\ lua.completion[1].act = "lock_bat_only"

\* C12 as stated: with the single callback returning ({"batman"}, true) for
\* "bat" and nothing otherwise, tab_complete("bat") yields ["batman"], locked,
\* and a following tab_complete("rob") yields no entries, locked.
C12_LockCarriesOver ==
    [][(OnlyBatLocks /\ last.op = "tab_complete" /\ last.arg = "bat"
          /\ last'.op = "tab_complete" /\ last'.arg = "rob") =>
         /\ last.ret = [entries |-> <<"batman">>, locked |-> TRUE]
         /\ last'.ret = [entries |-> <<>>, locked |-> TRUE]]_vars

\* C12 amended: with that single callback, tab_complete("bat") yields
\* ["batman"], locked, and a following tab_complete("rob") yields no entries
\* and locked = false: every call starts from an unlocked, empty Completions.
C12_LockDoesNotCarryOver ==
    [][(OnlyBatLocks /\ last.op = "tab_complete" /\ last.arg = "bat"
          /\ last'.op = "tab_complete" /\ last'.arg = "rob") =>
         /\ last.ret = [entries |-> <<"batman">>, locked |-> TRUE]
         /\ last'.ret = [entries |-> <<>>, locked |-> FALSE]]_vars

C12_Witness ==
    /\ OnlyBatLocks
    /\ last.op = "tab_complete"
    /\ last.arg = "rob"
    /\ last.ret = CompletionsDefault

C14_ErrorGivesEmptyCompletions ==
    (last.op = "tab_complete" /\ last.err) =>
      /\ last.ret = CompletionsDefault
      /\ last.invoked = Walked(lua.completion)
      /\ Len(sent) = 1
      /\ Infos(sent) = {1}

\* the callback before the failing one had returned an entry and a lock
C14_Witness ==
    /\ last.op = "tab_complete"
    /\ last.err
    /\ last.arg = "bat"
    /\ Len(lua.completion) = 2
    /\ lua.completion[1].act = "lock"
    /\ lua.completion[2].act = "raise"
    /\ last.ret = CompletionsDefault


\* C15 as stated: on_connect and on_disconnect invoke every listener of
\* their table, also those registered after a listener that raises, and the
\* trace is sent as Info.
C15_ConnectContinuesOnError ==
    (last.op \in {"on_connect", "on_disconnect"}) =>
      /\ last.invoked = lua.tables[TableOf(last.op)]
      /\ last.err => (Len(sent) = 1 /\ Infos(sent) = {1})

\* C15 amended: on_connect and on_disconnect stop at the first listener that
\* raises: the listeners registered before it and the raising one are
\* invoked, in order, those registered after it are not invoked for that
\* event, and the trace is sent as one Info; when no listener raises every
\* listener is invoked and nothing is sent.
C15_ConnectStopsAtError ==
    (last.op \in {"on_connect", "on_disconnect"}) =>
      LET chain == lua.tables[TableOf(last.op)]
          k == FirstRaise(chain)
      IN /\ last.err <=> k # 0
         /\ last.invoked = (IF k = 0 THEN chain ELSE SubSeq(chain, 1, k))
         /\ sent = (IF k = 0 THEN <<>> ELSE output_stack_trace(k))

\* a disconnect listener raised and the one registered after it was skipped
C15_Witness ==
    /\ last.op = "on_disconnect"
    /\ last.err
    /\ Len(lua.tables["ON_DISCONNECT_CALLBACK_TABLE"]) = 2
    /\ Len(last.invoked) = 1
    /\ Len(sent) = 1


\* the entry run_timed_function(id) is to call: the core one first
TimedEntry(st, id) ==
    IF id \in DOMAIN st.timed_core THEN <<st.timed_core[id]>>
    ELSE IF id \in DOMAIN st.timed_user THEN <<st.timed_user[id]>>
    ELSE <<>>

\* C16: run_timed_function(id) invokes the core entry of id when there is
\* one, otherwise the user entry of id, never more than one callback; when
\* neither table has an entry for id nothing is invoked, the interpreter
\* state is unchanged and nothing is sent.
C16_RunTimedFunction ==
    [][last'.op = "run_timed_function" =>
         LET id == last'.arg
         IN /\ last'.invoked = TimedEntry(lua, id)
            /\ Len(last'.invoked) <= 1
            /\ (id \notin DOMAIN lua.timed_core \cup DOMAIN lua.timed_user) =>
                 /\ lua' = lua
                 /\ sent' = <<>>
                 /\ ~last'.err]_vars

\* the core entry of an id ran while the user table held other timers
C16_Witness ==
    /\ last.op = "run_timed_function"
    /\ Len(last.invoked) = 1
    /\ last.invoked[1].core
    /\ DOMAIN lua.timed_user # {}

\* C17: after remove_timed_function(id), id is in neither timed-callback
\* table and run_timed_function(id) would invoke nothing; the entries of
\* every other id and the rest of the interpreter are unchanged; removing an
\* id that is in neither table changes nothing; the call never fails; and
\* within one interpreter an id that was handed out and is absent stays absent.
C17_RemoveTimedFunction ==
    /\ [][last'.op = "remove_timed_function" =>
            LET id == last'.arg
            IN /\ id \notin DOMAIN lua'.timed_core \cup DOMAIN lua'.timed_user
               /\ TimedEntry(lua', id) = <<>>
               /\ \A i \in TimerIds \ {id} : TimedEntry(lua', i) = TimedEntry(lua, i)
               /\ DOMAIN lua'.timed_core = DOMAIN lua.timed_core \ {id}
               /\ DOMAIN lua'.timed_user = DOMAIN lua.timed_user \ {id}
               /\ lua' = [lua EXCEPT !.timed_core = lua'.timed_core,
                                     !.timed_user = lua'.timed_user]
               /\ (id \notin DOMAIN lua.timed_core \cup DOMAIN lua.timed_user)
                    => lua' = lua
               /\ ~last'.err
               /\ sent' = <<>>]_vars
    /\ [][\A id \in TimerIds :
            (/\ id < lua.next_timed_id
             /\ TimedEntry(lua, id) = <<>>
             /\ last'.op # "reset") => TimedEntry(lua', id) = <<>>]_vars

\* a timer was removed while another one stayed
C17_Witness ==
    /\ last.op = "remove_timed_function"
    /\ last.arg < lua.next_timed_id
    /\ TimedEntry(lua, last.arg) = <<>>
    /\ DOMAIN lua.timed_user # {}
    /\ DOMAIN lua.timed_core # {}

\* C18 as stated: after reset, run_timed_function(id) for an id that
\* timer.add handed to a script before the reset invokes no callback,
\* whatever timers are registered after the reset.
C18_StaleIdInvokesNothing ==
    (last.op = "run_timed_function" /\ last.arg \in conn.stale) =>
      last.invoked = <<>>

\* the callbacks of the timed-callback tables
TimedCallbacks(st) == Range(st.timed_core) \cup Range(st.timed_user)

\* C18 amended: reset cancels all timers: after reset(dims) the user
\* timed-callback table is empty and the id counter starts again, and
\* run_timed_function(id) never invokes a callback registered before the
\* reset; an id handed out before the reset can be handed out again after
\* it, and run_timed_function(id) then invokes the callback registered after
\* the reset.
C18_ResetCancelsTimers ==
    /\ [](\A cb \in TimedCallbacks(lua) \cup Range(last.invoked) :
            cb.epoch = lua.epoch)
    /\ [][last'.op = "reset" =>
            /\ lua'.epoch # lua.epoch
            /\ lua'.timed_user = <<>>
            /\ lua'.next_timed_id = FirstTimerId(lua')
            /\ \A id \in TimerIds :
                 \A cb \in Range(TimedEntry(lua', id)) : cb.core]_vars

\* an id handed out before the reset was handed out again after it and its
\* new callback ran
C18_Witness ==
    /\ last.op = "run_timed_function"
    /\ last.arg \in conn.stale
    /\ Len(last.invoked) = 1
    /\ ~last.invoked[1].core
    /\ last.invoked[1].epoch = lua.epoch

\* C19 as stated: tick invokes every callback of the core tick table and
\* then every callback of the user tick table, in insertion order, each once.
C19_TickInvokesAll ==
    (last.op = "tick") =>
      last.invoked = lua.tick_core \o lua.tick_user

\* C19 amended: tick(millis) invokes the callbacks of the core tick table
\* before those of the user tick table, in insertion order within each, each
\* at most once and each receiving millis, and stops at the first callback
\* that raises: the callbacks after it are not invoked for that tick. A
\* callback summing its arguments holds the sum of the millis of the ticks
\* that reached it.
C19_TickCoreFirstUntilError ==
    [][last'.op = "tick" =>
         LET chain == lua.tick_core \o lua.tick_user
             k == FirstRaise(chain)
         IN /\ last'.invoked = (IF k = 0 THEN chain ELSE SubSeq(chain, 1, k))
            /\ last'.err <=> k # 0
            /\ lua'.total_millis =
                 lua.total_millis + last'.arg * Summing(last'.invoked)
            /\ lua' = [lua EXCEPT !.total_millis = lua'.total_millis]
            /\ sent' = (IF k = 0 THEN <<>> ELSE output_stack_trace(k))]_vars

\* the second tick of a chain of a core callback and a summing user callback
C19_Witness ==
    /\ last.op = "tick"
    /\ ~last.err
    /\ Len(last.invoked) >= 2
    /\ last.invoked[1].core
    /\ Summing(lua.tick_user) = 1
    /\ lua.total_millis = 2 * TickMillis


\* C20: after load_script(path) returns, package.path is what it was before
\* the call, whether the script ran to completion, raised, changed
\* package.path itself or there was no file to load; while the script ran,
\* package.path was that value with <dir>/?.lua of the script put in front.
C20_LoadScriptRestoresPath ==
    [][last'.op = "load_script" =>
         /\ lua'.package_path = lua.package_path
         /\ IF last'.arg \in DOMAIN ScriptFiles
            THEN /\ last'.seen # None
                 /\ Unwrap(last'.seen) =
                      <<Append(DirOf(expand_tilde(last'.arg)), "?.lua")>>
                        \o lua.package_path
            ELSE /\ last'.seen = None
                 /\ lua' = lua]_vars

\* a script raised while a path other than the default one was set: the path
\* it saw is not the one that is left
C20_Witness ==
    /\ last.op = "load_script"
    /\ last.err
    /\ Len(sent) = 1
    /\ Len(lua.package_path) > Len(DefaultPackagePath)
    /\ last.seen # None
    /\ Unwrap(last.seen) = << <<"home", "user", "scripts", "?.lua">> >>
                             \o lua.package_path

\* C21: check_bindings(cmd) returns true exactly when COMMAND_BINDING_TABLE
\* holds a callback under cmd; then that callback and no other is invoked
\* once, and true is returned also when it raises (one Info is sent then);
\* when there is no binding nothing is invoked, nothing is sent and false is
\* returned; the interpreter state is left as it was.
C21_CheckBindings ==
    [][last'.op = "check_bindings" =>
         LET cmd == last'.arg
             found == cmd \in DOMAIN lua.bindings
         IN /\ last'.ret = found
            /\ last'.invoked = (IF found THEN <<lua.bindings[cmd]>> ELSE <<>>)
            /\ last'.err => found
            /\ sent' = (IF last'.err THEN output_stack_trace(1) ELSE <<>>)
            /\ lua' = lua]_vars

\* a bound callback raised and check_bindings still answered true
C21_Witness ==
    /\ last.op = "check_bindings"
    /\ last.ret = TRUE
    /\ last.err
    /\ Len(last.invoked) = 1
    /\ Len(sent) = 1
    /\ Cardinality(DOMAIN lua.bindings) >= 2

\* the first tag the fetcher delivered compares greater than the running one
NewerFetched ==
    /\ last.arg.fetched # <<>>
    /\ StrCmp(Head(last.arg.fetched), last.arg.current) = "Greater"

\* C22: the version-check worker sends exactly two Info events, the notice
\* naming the current and the latest version and then the release URL of the
\* latest, when the first tag the fetcher delivered compares greater than the
\* running version; otherwise (equal, smaller, or no tag because the fetch
\* failed) it sends nothing. The tests' cases: v10.0.0 over v1.0.0 is
\* reported, v1.0.0 over v1.0.0 and an empty list are not.
C22_VersionNotice ==
    (last.op = "check_version") =>
      LET current == last.arg.current
          fetched == last.arg.fetched
          latest == Head(fetched)
          both == <<NewerNotice(current, latest), VisitNotice(latest)>>
      IN /\ \A i \in DOMAIN sent : sent[i].type = "Info"
         /\ IF NewerFetched
            THEN /\ Len(sent) <= 2
                 /\ sent = SubSeq(both, 1, Len(sent))
                 /\ last.ret = "returned" => sent = both
            ELSE sent = <<>>
         /\ (current = <<"v", "1", ".", "0", ".", "0">>
               /\ fetched = << <<"v", "1", "0", ".", "0", ".", "0">>,
                               <<"v", "9", ".", "0", ".", "0">> >>
               /\ last.ret = "returned") => Len(sent) = 2
         /\ (current = <<"v", "1", ".", "0", ".", "0">>
               /\ fetched = << <<"v", "1", ".", "0", ".", "0">>,
                               <<"v", "0", ".", "9", ".", "9">> >>) => sent = <<>>

\* the worker of test_check has returned: v10.0.0 was reported to v1.0.0
C22_Witness ==
    /\ last.op = "check_version"
    /\ last.ret = "returned"
    /\ last.arg.current = <<"v", "1", ".", "0", ".", "0">>
    /\ last.arg.fetched # <<>>
    /\ Head(last.arg.fetched) = <<"v", "1", "0", ".", "0", ".", "0">>
    /\ Len(sent) = 2
    /\ sent[2].text[2] =
         <<BLIGHTMUD_RELEASE_URL_PREFIX, <<"v", "1", "0", ".", "0", ".", "0">> >>

\* C23: connection_id never repeats within a session: every on_connect
\* leaves in the registry the id it was handed, which is greater than the id
\* of every earlier on_connect of the session (within the u16 range),
\* whatever on_disconnect and reset did in between and whether or not a
\* listener raised; the registry never holds an id other than that of the
\* latest on_connect, so a script comparing against an id it read earlier
\* sees a different one after a reconnect.
C23_ConnectionIdNeverRepeats ==
    /\ [][last'.op = "on_connect" =>
            /\ lua'.registry.CONNECTION_ID = Some(last'.arg)
            /\ conn'.id = Some(last'.arg)
            /\ last'.arg <= U16Max
            /\ conn.id # None => last'.arg > Unwrap(conn.id)
            /\ lua.registry.CONNECTION_ID # None =>
                 last'.arg > Unwrap(lua.registry.CONNECTION_ID)]_vars
    /\ [](lua.registry.CONNECTION_ID \in {None, conn.id})

\* a third connection, after a rebuild, with a listener that raised
C23_Witness ==
    /\ last.op = "on_connect"
    /\ last.arg >= 3
    /\ last.err
    /\ lua.epoch = 1
    /\ lua.registry.CONNECTION_ID = Some(last.arg)

\* C24: core mode is set only while the built-in modules execute: whenever
\* build() or reset() has returned the core-mode flag is clear, whether or not
\* construction reported a script error, so every listener, timer and tick
\* callback a script adds afterwards lands in the user tables.
C24_CoreModeClearAfterBuild ==
    /\ [](~lua.core_mode)
    /\ [][(last'.op = "eval" /\ ~last'.err) =>
            /\ last'.arg.kind = "timer_add" =>
                 /\ last'.ret \in DOMAIN lua'.timed_user
                 /\ lua'.timed_core = lua.timed_core
            /\ last'.arg.kind = "on_tick" =>
                 /\ Len(lua'.tick_user) = Len(lua.tick_user) + 1
                 /\ lua'.tick_core = lua.tick_core
            /\ last'.arg.kind = "add_listener" =>
                 LET tbl == lua'.tables[last'.arg.table]
                 IN ~tbl[Len(tbl)].core]_vars

\* what holds of the code: the flag is clear after every construction in
\* which no script run in core mode raised
C24_ClearUnlessCoreModuleRaised ==
    (lua.failing # Some("plugins.lua")) => ~lua.core_mode

\* the flag is still set after a construction that reported an error, and a
\* timer a script added afterwards is in the core table
C24_CoreModeLeftSet ==
    /\ lua.core_mode
    /\ lua.failing # None
    /\ last.op = "eval"
    /\ last.arg.kind = "timer_add"
    /\ last.ret \in DOMAIN lua.timed_core

SetCursorCalled(l) ==
    l.op \in {"eval", "panic"} /\ l.arg.kind = "prompt_set_cursor"

\* C25: prompt.set_cursor(n) converts the 1-indexed n to the 0-indexed n - 1
\* without unsigned underflow for every n a script can pass, n = 0 included:
\* the call does not panic and every offset it sends is one below n; for
\* n >= 1 it sends exactly one SetPromptInputCursor(n - 1), and a following
\* prompt.get_cursor() returns n.
C25_SetCursorConverts ==
    /\ [][SetCursorCalled(last') =>
            LET n == last'.arg.offset
            IN /\ last'.op # "panic"
               /\ \A i \in DOMAIN sent' :
                    /\ sent'[i].type = "SetPromptInputCursor"
                    /\ Some(sent'[i].offset) = U32CheckedSub1(n)
               /\ n # U32(0) =>
                    sent' = <<SetPromptInputCursor(Unwrap(U32CheckedSub1(n)))>>]_vars
    /\ [][(SetCursorCalled(last) /\ last.arg.offset # U32(0)
             /\ last'.op = "eval" /\ last'.arg.kind = "prompt_get_cursor") =>
            last'.ret = Some(last.arg.offset)]_vars

\* what holds of the code: C25 for every n >= 1
C25_FromOneOn ==
    /\ [][(SetCursorCalled(last') /\ last'.arg.offset # U32(0)) =>
            /\ last'.op # "panic"
            /\ sent' = <<SetPromptInputCursor(
                           Unwrap(U32CheckedSub1(last'.arg.offset)))>>]_vars
    /\ [][(SetCursorCalled(last) /\ last.arg.offset # U32(0)
             /\ last'.op = "eval" /\ last'.arg.kind = "prompt_get_cursor") =>
            last'.ret = Some(last.arg.offset)]_vars

\* set_cursor(0) sent the offset 4294967295
C25_Wrapped ==
    /\ last.op = "eval"
    /\ last.arg.kind = "prompt_set_cursor"
    /\ last.arg.offset = U32(0)
    /\ sent = <<SetPromptInputCursor(U32Max)>>

\* set_cursor(0) panicked
C25_Panicked ==
    /\ last.op = "panic"
    /\ last.arg.kind = "prompt_set_cursor"
    /\ last.arg.offset = U32(0)

MaskSetCalled(l) ==
    l.op \in {"eval", "panic"} /\ l.arg.kind = "prompt_mask_set"

\* C26: prompt_mask.set never panics: for every data and mask a script can
\* pass (data that is not valid UTF-8, a table with a non-integer key or a
\* non-string value) and also with the event bus closed, the call returns a
\* boolean or fails as a script error that is reported as Info.
C26_MaskSetNeverPanics ==
    MaskSetCalled(last) =>
      /\ last.op # "panic"
      /\ \/ ~last.err /\ last.ret \in {"true", "false"}
         \/ last.err /\ Infos(sent) # {}

\* what holds of the code: no panic for valid UTF-8 data that differs from
\* the prompt, and none for data equal to the prompt with a table of
\* integer keys and string values while the bus is open
C26_NoPanicOnValidInput ==
    [][(MaskSetCalled(last')
          /\ ToStrOk(last'.arg.data)
          /\ \/ last'.arg.data # lua.registry.PROMPT_CONTENT
             \/ /\ \A i \in DOMAIN last'.arg.pairs : PairOk(last'.arg.pairs[i])
                /\ last'.arg.writer_open) =>
         /\ last'.op = "eval"
         /\ last'.ret \in {"true", "false"}]_vars

\* prompt_mask.set panicked on the prompt's own text and a table with a
\* value that is no string
C26_Panicked ==
    /\ last.op = "panic"
    /\ last.arg.kind = "prompt_mask_set"
    /\ last.arg.data = "hp>"
    /\ last.arg.writer_open
    /\ \E i \in DOMAIN last.arg.pairs : ~PairOk(last.arg.pairs[i])

SpellCalled(l) ==
    l.op = "eval" /\ l.arg.kind \in {"spellcheck_check", "spellcheck_suggest"}

\* C27 as stated: while the spellchecker has no dictionary (init was never
\* called), spellcheck.check(word) returns false and spellcheck.suggest(word)
\* returns an empty table instead of raising, and an Info is sent.
C27_UninitialisedReturnsEmpty ==
    [][(SpellCalled(last') /\ lua.hunspell = None) =>
         /\ ~last'.err
         /\ last'.arg.kind = "spellcheck_check" => last'.ret = "false"
         /\ last'.arg.kind = "spellcheck_suggest" => DOMAIN last'.ret = {}
         /\ Infos(sent') # {}]_vars

\* C27 amended: while the spellchecker has no dictionary (init was not
\* called in this interpreter), spellcheck.check(word) and
\* spellcheck.suggest(word) raise the script error "spellchecker not
\* initialized" and return no value; the error of the evaluated script is
\* sent as one Info and the interpreter is left as it was. Once init has been
\* called, check returns a boolean and suggest a table, without error and
\* without an event.
C27_UninitialisedRaises ==
    [][SpellCalled(last') =>
         /\ lua' = lua
         /\ IF lua.hunspell = None
            THEN /\ last'.err
                 /\ last'.ret = Nil
                 /\ sent' = output_stack_trace(1)
            ELSE /\ ~last'.err
                 /\ sent' = <<>>
                 /\ last'.arg.kind = "spellcheck_check" =>
                      last'.ret \in {"true", "false"}
                 /\ last'.arg.kind = "spellcheck_suggest" =>
                      DOMAIN last'.ret \subseteq 0..1]_vars

\* check raised in the interpreter built by a reset, after an init in the
\* one before it
C27_Witness ==
    /\ last.op = "eval"
    /\ last.arg.kind = "spellcheck_check"
    /\ last.err
    /\ lua.hunspell = None
    /\ lua.epoch = 1
    /\ Len(sent) = 1

\* the parser state before the character at position pos of the input
RECURSIVE ParserBefore(_, _)
ParserBefore(input, pos) ==
    IF pos <= 1 THEN "ground"
    ELSE Advance(ParserBefore(input, pos - 1), input[pos - 1]).state

\* the positions of the input, up to position upto, whose character is
\* neither a control code nor part of an escape sequence, ascending
PlainPositions(input, upto) ==
    SortedSeq({i \in 1..upto :
                 /\ input[i] \notin {ESC, BEL}
                 /\ ParserBefore(input, i) = "ground"})

\* C28: for an ASCII input, printable_chars yields exactly the characters
\* that are neither control codes nor part of an escape sequence (ESC, CSI
\* parameters and final byte, OSC payload), in input order, and
\* printable_char_indices yields the same characters, each paired with its
\* byte offset in the input, the offsets strictly increasing. While an
\* iterator is being consumed it has yielded those of the part it has read.
C28_PrintableChars ==
    (last.op \in {"printable_chars", "printable_char_indices"}) =>
      LET input == last.arg
          it == last.ret
          plain == PlainPositions(input, it.pos - 1)
      IN /\ it.done => it.pos = Len(input) + 1
         /\ Len(it.yielded) = Len(plain)
         /\ \A i \in DOMAIN plain :
              it.yielded[i] =
                (IF last.op = "printable_chars" THEN input[plain[i]]
                 ELSE <<plain[i] - 1, input[plain[i]]>>)
         /\ last.op = "printable_char_indices" =>
              \A i \in 1..(Len(it.yielded) - 1) :
                it.yielded[i][1] < it.yielded[i + 1][1]
         /\ (it.done /\ input = <<ESC, "[", "1", "a", "a", "1">>) =>
              it.yielded = (IF last.op = "printable_chars" THEN <<"a", "1">>
                            ELSE << <<4, "a">>, <<5, "1">> >>)

\* the text after a window title was yielded with its offset, the title and
\* the ESC at the end were not
C28_Witness ==
    /\ last.op = "printable_char_indices"
    /\ last.arg = <<ESC, "]", "a", BEL, "a", ESC>>
    /\ last.ret.done
    /\ last.ret.yielded = << <<4, "a">> >>

\* the view the listener at position i of the chain is handed when every
\* listener before it returned: the view the listener before it returned
RECURSIVE Received(_, _, _, _)
Received(st, chain, line, i) ==
    IF i <= 1 THEN LuaLineFrom(line)
    ELSE CallLineListener(st, chain[i - 1],
                          Received(st, chain, line, i - 1)).lline

OutputWalked == last.op = "on_mud_output" /\ ~last.arg.bypass_script

\* C29 as stated: on_mud_output on a line without bypass_script calls each
\* listener of MUD_OUTPUT_LISTENER_TABLE exactly once in insertion order,
\* built-in listeners first, hands each the line the previous one returned
\* and writes back the line of the last one, its replacement, when present,
\* as the content.
C29_EveryOutputListenerCalled ==
    OutputWalked =>
      LET chain == lua.tables["MUD_OUTPUT_LISTENER_TABLE"]
      IN /\ last.invoked = chain
         /\ last.ret = WriteBack(Received(lua, chain, last.arg, Len(chain) + 1))

\* C29 (amended): the listeners are called in insertion order, built-in
\* listeners first, each at most once and each with the line the previous
\* one returned. When none raises, every listener is called and the line
\* the last one returned is written back, its replacement, when present, as
\* the content. When one raises, no later listener is called, the line is
\* left as it was and one Info carries the trace.
C29_OutputChain ==
    OutputWalked =>
      LET chain == lua.tables["MUD_OUTPUT_LISTENER_TABLE"]
          k == FirstRaise(chain)
          final == Received(lua, chain, last.arg, Len(chain) + 1)
      IN /\ \A i, j \in DOMAIN chain : (i < j /\ chain[j].core) => chain[i].core
         /\ IF k = 0
            THEN /\ last.invoked = chain
                 /\ ~last.err /\ sent = <<>>
                 /\ last.ret = WriteBack(final)
                 /\ final.replacement # Nil =>
                      last.ret.content = final.replacement
                 /\ final.replacement = Nil =>
                      last.ret.content = last.arg.content
            ELSE /\ last.invoked = SubSeq(chain, 1, k)
                 /\ last.err /\ Len(sent) = 1 /\ sent[1].type = "Info"
                 /\ last.ret = last.arg

\* a user listener saw the gag of the listener before it and replaced the
\* content, after the built-in listener had been called first
C29_Witness ==
    /\ OutputWalked
    /\ ~last.err
    /\ Len(last.invoked) = 3
    /\ last.invoked[1].core
    /\ last.invoked[2].act = "gag"
    /\ last.invoked[3].act = "replace_gagged"
    /\ last.ret.gag
    /\ last.ret.content = ReplacedGagged

\* a listener raised before the last one: the rest was not called and the
\* line was not written back
C29_Aborted ==
    /\ OutputWalked
    /\ last.err
    /\ Len(last.invoked) < Len(lua.tables["MUD_OUTPUT_LISTENER_TABLE"])
    /\ last.ret = last.arg

\* C30: for a line whose bypass_script flag is set, on_mud_output and
\* on_mud_input call no listener, send no event, leave the interpreter as it
\* was and hand the line back unchanged in content and in every flag; matched
\* stays as it was, on the input path too.
C30_BypassSkipsListeners ==
    [][(/\ last'.op \in {"on_mud_output", "on_mud_input"}
        /\ last'.arg.bypass_script)
       => (/\ last'.invoked = <<>>
           /\ last'.fired = {}
           /\ ~last'.err
           /\ sent' = <<>>
           /\ lua' = lua
           /\ last'.ret = last'.arg
           /\ last'.ret.matched = last'.arg.matched)]_vars

\* an unmatched bypass line went down the input path past a listener that
\* raises and one that gags, and came back unmatched and not gagged
C30_Witness ==
    /\ last.op = "on_mud_input"
    /\ last.arg.bypass_script
    /\ ~last.arg.matched /\ ~last.arg.gag
    /\ \E i \in DOMAIN lua.tables["MUD_INPUT_LISTENER_TABLE"] :
         lua.tables["MUD_INPUT_LISTENER_TABLE"][i].act = "raise"
    /\ \E i \in DOMAIN lua.tables["MUD_INPUT_LISTENER_TABLE"] :
         lua.tables["MUD_INPUT_LISTENER_TABLE"][i].act = "gag"
    /\ last.invoked = <<>>
    /\ sent = <<>>
    /\ last.ret = last.arg

\* a listener that ran before the failing one had changed the view
ChangedBeforeRaise ==
    /\ last.op \in {"on_mud_output", "on_mud_input"}
    /\ last.err
    /\ \E i \in 1..(Len(last.invoked) - 1) :
         \/ last.invoked[i].act = "gag" /\ ~last.arg.gag
         \/ last.invoked[i].act = "replace"

\* C31: when a listener raises during on_mud_output the caller's line is
\* left exactly as it was before the call: what the listeners before the
\* failing one changed (gag, content, replacement) is not written back. On
\* the input path the line is left as it was but for matched = true.
C31_RaiseLeavesLine ==
    (last.op \in {"on_mud_output", "on_mud_input"} /\ last.err) =>
      /\ last.op = "on_mud_output" => last.ret = last.arg
      /\ last.op = "on_mud_input" =>
           last.ret = [last.arg EXCEPT !.matched = TRUE]

\* a listener replaced the content of a server line and the next one raised:
\* the line came back with its own content
C31_Witness ==
    /\ ChangedBeforeRaise
    /\ last.op = "on_mud_output"
    /\ \E i \in 1..(Len(last.invoked) - 1) : last.invoked[i].act = "replace"
    /\ last.ret.content = "test"
    /\ last.ret = last.arg

\* a listener gagged an unmatched input line and the next one raised: the
\* line came back not gagged and matched
C31_InputWitness ==
    /\ ChangedBeforeRaise
    /\ last.op = "on_mud_input"
    /\ ~last.arg.matched
    /\ ~last.ret.gag
    /\ last.ret.matched

\* the mask the renderer applied is one prompt_mask.set accepted
MaskRendered == last.op = "mask_buffer"

\* C32: mask_buffer is total over what scripts can install: for any prompt
\* buffer and any mask accepted by prompt_mask.set, keys <= 0, keys greater
\* than len(buf) + 1 and values with multi-byte characters included, it
\* returns a string and never aborts with an out-of-range insertion or an
\* arithmetic overflow.
C32_MaskBufferTotal ==
    MaskRendered => ~last.ret.panic

\* mask_buffer returns a string when every key lies in 1..len(buf)+1 and
\* every value is ASCII
C32_TotalWithinBuffer ==
    (MaskRendered
       /\ DOMAIN last.arg.mask \subseteq 1..(Len(last.arg.buf) + 1)
       /\ \A k \in DOMAIN last.arg.mask :
            StrLen(last.arg.mask[k]) = Len(last.arg.mask[k])) =>
      ~last.ret.panic

\* a mask with key 0, accepted by prompt_mask.set, aborted mask_buffer
C32_PanickedOnKeyZero ==
    /\ MaskRendered
    /\ DOMAIN last.arg.mask = {0}
    /\ last.ret.panic

\* a mask with a key beyond the end of the buffer aborted mask_buffer
C32_PanickedBeyondEnd ==
    /\ MaskRendered
    /\ DOMAIN last.arg.mask = {Len(last.arg.buf) + 2}
    /\ last.ret.panic

TcpOpened == last.op = "open_tcp_stream"

\* connecting succeeded for one of the resolved addresses
SomeConnects(resolved) ==
    /\ resolved # None
    /\ \E i \in DOMAIN Unwrap(resolved) :
         /\ Unwrap(resolved)[i].socket_ok
         /\ Unwrap(resolved)[i].connect = "connected"

\* C33: open_tcp_stream returns Ok(stream) only when connecting to one of
\* the resolved addresses succeeded within the timeout, the stream being
\* that connection; when the attempt fails or times out for every resolved
\* address it returns an error.
C33_OkOnlyWhenConnected ==
    TcpOpened =>
      /\ last.ret.ok => (SomeConnects(last.arg)
                          /\ Unwrap(last.ret.stream).connected)
      /\ ~SomeConnects(last.arg) => ~last.ret.ok

\* what open_tcp_stream does: an error only when resolution failed or no
\* socket could be made; else the socket of the first address for which one
\* could be made, connected or not, later addresses never tried
C33_OkWheneverSocketMade ==
    TcpOpened =>
      LET made == IF last.arg = None THEN {}
                  ELSE {i \in DOMAIN Unwrap(last.arg) :
                          Unwrap(last.arg)[i].socket_ok}
      IN /\ last.ret.ok = (made # {})
         /\ last.ret.ok =>
              LET first == CHOOSE i \in made : \A j \in made : i <= j
              IN /\ Unwrap(last.ret.stream).addr = first
                 /\ Unwrap(last.ret.stream).connected =
                      (Unwrap(last.arg)[first].connect = "connected")

\* every connect attempt failed and the caller was handed Ok(stream)
C33_UnconnectedStream ==
    /\ TcpOpened
    /\ ~SomeConnects(last.arg)
    /\ last.ret.ok
    /\ ~Unwrap(last.ret.stream).connected

\* a later address would have connected, the stream is the first, refused one
C33_LaterAddressNotTried ==
    /\ TcpOpened
    /\ SomeConnects(last.arg)
    /\ last.ret.ok
    /\ ~Unwrap(last.ret.stream).connected

IterDone ==
    /\ last.op \in {"printable_chars", "printable_char_indices"}
    /\ last.ret.done

\* what an iterator of the flavour of last.op yields for the characters at
\* the given positions of its input
YieldedAt(positions, chars) ==
    [i \in DOMAIN positions |->
       IF last.op = "printable_chars" THEN chars[positions[i]]
       ELSE <<ByteOffset(last.arg, positions[i]), chars[positions[i]]>>]

\* the parser state before position pos when the parser is told of a
\* character above U+007F as what it is, a printable character
RECURSIVE ByCodePointBefore(_, _)
ByCodePointBefore(input, pos) ==
    IF pos <= 1 THEN "ground"
    ELSE LET before == ByCodePointBefore(input, pos - 1)
             c == input[pos - 1]
         IN IF c \in {WideEsc, WideA}
            THEN (IF before = "osc" THEN "osc" ELSE "ground")
            ELSE Advance(before, c).state

C34_ClassifiedByLowByte ==
    IterDone =>
      LET bytes == [i \in DOMAIN last.arg |-> AsU8(last.arg[i])]
      IN last.ret.yielded =
           YieldedAt(PlainPositions(bytes, Len(bytes)), bytes)

\* U+011B was taken for ESC: it and the two characters after it are gone
C34_WideCharStartsEscape ==
    /\ IterDone
    /\ last.arg = <<WideEsc, "[", "a", "a">>
    /\ last.ret.yielded \in {<<"a">>, << <<4, "a">> >>}

\* U+0161 came out as the letter a
C34_WideCharYieldedAsAscii ==
    /\ IterDone
    /\ last.arg = <<WideA>>
    /\ last.ret.yielded \in {<<"a">>, << <<0, "a">> >>}

ConfigOps == {"build", "reset", "set_reader_mode", "set_tts_enabled",
              "set_dimensions"}

\* C35: connection-independent configuration survives construction and
\* reset: the reader_mode and tts_enabled given to the builder, or last set
\* through set_reader_mode / set_tts_enabled, are what the root object's
\* reader_mode and the tts object's enabled flag hold after build() and
\* after every reset(dims), and terminal_dimensions() returns dims.
C35_ConfigurationSurvives ==
    (last.op \in ConfigOps) =>
      /\ last.ret.state.reader_mode = Unwrap(last.seen).reader_mode
      /\ last.ret.state.tts_enabled = Unwrap(last.seen).tts_enabled
      /\ last.op \in {"build", "reset"} =>
           last.ret.state.screen_dimensions = last.arg

\* what holds: the tts flag and the dimensions survive, LuaScript keeps
\* both settings, and the root object's reader_mode is the one of a new
\* root object after build() and reset, and r after set_reader_mode(r)
C35_TtsAndDimensionsSurvive ==
    (last.op \in ConfigOps) =>
      /\ last.ret.reader_mode = Unwrap(last.seen).reader_mode
      /\ last.ret.tts_enabled = Unwrap(last.seen).tts_enabled
      /\ last.ret.state.tts_enabled = Unwrap(last.seen).tts_enabled
      /\ last.op \in {"build", "reset", "set_dimensions"} =>
           last.ret.state.screen_dimensions = last.arg
      /\ last.op \in {"build", "reset"} =>
           last.ret.state.reader_mode = BlightNewReaderMode
      /\ last.op = "set_reader_mode" => last.ret.state.reader_mode = last.arg

\* the builder was given reader_mode = true and the root object has false
C35_ReaderModeLostAtBuild ==
    /\ last.op = "build"
    /\ Unwrap(last.seen).reader_mode
    /\ ~last.ret.state.reader_mode

\* set_reader_mode(true) was followed by a reset: LuaScript still has true,
\* the root object has false
C35_ReaderModeLostAtReset ==
    /\ last.op = "reset"
    /\ last.ret.reader_mode
    /\ ~last.ret.state.reader_mode
    /\ last.ret.state.tts_enabled

\* C36: reset re-creates the recorded prompt content as the empty string
\* and drops IS_CONNECTED / CONNECTION_ID. From the end of reset until the
\* next set_prompt_content or prompt.set the content stays empty and
\* prompt_mask.set(p, M) returns true only for p = ""; until the next
\* on_connect the registry holds no connection id, even when the session
\* is still connected.
C36_ResetForgetsPromptAndConnection ==
    [][/\ last'.op = "reset" =>
            /\ lua'.registry.PROMPT_CONTENT = ""
            /\ lua'.registry.IS_CONNECTED = None
            /\ lua'.registry.CONNECTION_ID = None
       /\ (/\ lua.registry.PROMPT_CONTENT = ""
           /\ last'.op # "set_prompt_content"
           /\ ~(last'.op = "eval" /\ last'.arg.kind = "prompt_set")) =>
            /\ lua'.registry.PROMPT_CONTENT = ""
            /\ (last'.op = "eval" /\ last'.arg.kind = "prompt_mask_set") =>
                 /\ (last'.ret = "true") = (last'.arg.data = "")
                 /\ (sent' # <<>>) = (last'.arg.data = "")
       /\ (lua.registry.CONNECTION_ID = None /\ last'.op # "on_connect") =>
            lua'.registry.CONNECTION_ID = None]_vars

\* after a reset, the session still connected, a mask for the prompt of
\* before the reset was refused and the registry has no connection id
C36_Witness ==
    /\ last.op = "eval"
    /\ last.arg.kind = "prompt_mask_set"
    /\ last.arg.data = "hp>"
    /\ last.ret = "false"
    /\ sent = <<>>
    /\ conn.rebuilt
    /\ conn.id # None
    /\ lua.registry.CONNECTION_ID = None
    /\ lua.registry.PROMPT_CONTENT = ""

\* C37: prompt.set(t) updates the recorded prompt content at once:
\* prompt.get() right after it returns t, a following prompt_mask.set(p, M)
\* in the same callback returns true exactly when p = t, and the bus then
\* carries SetPromptInput(t) before SetPromptMask(M). Conversely, once
\* set_prompt_content(c) has run with c # t, prompt_mask.set(t, M) returns
\* false and sends nothing.
C37_PromptSetTakesEffectAtOnce ==
    [][/\ (last'.op = "eval" /\ last'.arg.kind = "prompt_set_get_mask") =>
            LET t == last'.arg.line
                input == [type |-> "SetPromptInput", text |-> t]
                mask == [type |-> "SetPromptMask",
                         mask |-> PromptMaskFrom(last'.arg.mask)]
            IN /\ last'.ret.got = t
               /\ lua'.registry.PROMPT_CONTENT = t
               /\ last'.ret.accepted = (last'.arg.data = t)
               /\ sent' = (IF last'.arg.data = t THEN <<input, mask>>
                           ELSE <<input>>)
       /\ (/\ last.op = "set_prompt_content"
           /\ last'.op = "eval" /\ last'.arg.kind = "prompt_mask_set"
           /\ last'.arg.data # last.arg) =>
            (last'.ret = "false" /\ sent' = <<>>)]_vars

\* one callback set the prompt to "hp>" and masked it: the mask was
\* accepted and the two events went out in that order
C37_Witness ==
    /\ last.op = "eval"
    /\ last.arg.kind = "prompt_set_get_mask"
    /\ last.arg.line = "hp>"
    /\ last.arg.data = "hp>"
    /\ last.ret.got = "hp>"
    /\ last.ret.accepted
    /\ Len(sent) = 2
    /\ sent[1].type = "SetPromptInput"
    /\ sent[2].type = "SetPromptMask"

\* the main loop reported other prompt content and the mask for the text
\* the script had set was refused
C37_StaleMaskRefused ==
    /\ last.op = "eval"
    /\ last.arg.kind = "prompt_mask_set"
    /\ last.arg.data = "hp>"
    /\ lua.registry.PROMPT_CONTENT = "mp>"
    /\ last.ret = "false"

\* the number a digit stands for
DigitValue(ch) == Byte(ch) - Byte("0")

\* the release a single-digit tag names, as one number: major, minor and
\* patch weigh 100, 10 and 1
Release(tag) ==
    100 * DigitValue(tag[2]) + 10 * DigitValue(tag[4]) + DigitValue(tag[6])

\* C38: the fetcher returns the tags in descending lexicographic order; for
\* tags v<major>.<minor>.<patch> with single-digit components that is the
\* descending order of the releases, so the first tag is the highest release
\* and the worker notifies, naming it, exactly when the repository has a
\* release strictly newer than the running version.
C38_LexicographicIsSemver ==
    (last.op = "check_version") =>
      LET fetched == last.arg.fetched
          current == last.arg.current
          newer == {i \in DOMAIN fetched :
                      Release(fetched[i]) > Release(current)}
      IN /\ \A i, j \in DOMAIN fetched :
              i < j => /\ StrCmp(fetched[i], fetched[j]) = "Greater"
                       /\ Release(fetched[i]) > Release(fetched[j])
         /\ (run(current, fetched) # <<>>) = (newer # {})
         /\ last.ret = "returned" =>
              sent = (IF newer = {} THEN <<>>
                      ELSE <<NewerNotice(current, fetched[1]),
                             VisitNotice(fetched[1])>>)

\* the repository holds an older and a newer release than the running one:
\* the newer one is first and is the one announced
C38_Witness ==
    /\ last.op = "check_version"
    /\ last.ret = "returned"
    /\ Len(last.arg.fetched) = 2
    /\ Release(last.arg.fetched[1]) > Release(last.arg.current)
    /\ Release(last.arg.fetched[2]) < Release(last.arg.current)
    /\ sent = <<NewerNotice(last.arg.current, last.arg.fetched[1]),
                VisitNotice(last.arg.fetched[1])>>

====
